---- MODULE Spec2Model ----
(***************************************************************************)
(* codeaudit: the concurrent scan / parse / aggregate pipeline of          *)
(* AnalyzeProjectUseCase.Execute (internal/usecase), its collaborators     *)
(* (scanner, reader, analyzers, version control, storage) and the          *)
(* aggregation that builds the ProjectReport.                              *)
(*                                                                         *)
(* Strings are modelled as sequences of components: a path is              *)
(* <<"root", "a", ".go">> (directory, base name, extension), the empty     *)
(* string is <<>>.  Go channels are modelled by what they do: an           *)
(* unbuffered channel is a rendezvous of sender and receiver, the          *)
(* buffered errCh is a FIFO sequence with a capacity.  The analyzers and   *)
(* buildProjectReport are also run on their own, over bounded universes of *)
(* texts and of file lists (ParseSpec, AggSpec).                           *)
(***************************************************************************)
EXTENDS FiniteSets, Integers, Sequences, TLC

\* ---------------------------------------------------------------- bounds
MaxFiles == 2
MaxWorkers == 2
\* lines of a C text, declarations of a Go file
MaxLines == 3
MaxDecls == 2
\* files handed to buildProjectReport: short lists, and lists longer than TopN
MaxAggFiles == 3
MaxHotFiles == 11

\* ------------------------------------------------------- input universes
Root == <<"root">>
RootPaths == {<<>>, Root}

\* the files of the tree, in the lexical order filepath.WalkDir visits them
PathOrder ==
    << Root \o <<"a", ".go">>, Root \o <<"b", ".c">>, Root \o <<"n", ".txt">> >>

Paths == { PathOrder[i] : i \in 1..Len(PathOrder) }

\* uc.parsers: none, or Go and C with a second analyzer for the C extensions
ParserLists ==
    { <<>>, <<"go", "c", "c">> }

GitValues ==
    { [LinesAdded |-> 0, LinesDeleted |-> 0, Commits |-> 1],
      [LinesAdded |-> 2, LinesDeleted |-> 1, Commits |-> 2] }

SeqsUpTo(S, n) == UNION { [1..k -> S] : k \in 0..n }

RECURSIVE SumSeq(_)
SumSeq(s) == IF s = <<>> THEN 0 ELSE Head(s) + SumSeq(Tail(s))

RECURSIVE SumOver(_, _)
SumOver(f, S) ==
    IF S = {} THEN 0
    ELSE LET x == CHOOSE y \in S : TRUE IN f[x] + SumOver(f, S \ {x})

Occurrences(s, x) == Cardinality({ i \in 1..Len(s) : s[i] = x })

\* ------------------------------------------------------------ pure parts

\* strings.HasSuffix(path, ext) for a one-component extension
HasSuffix(path, ext) == Len(path) >= 1 /\ path[Len(path)] = ext

CParser_SupportsFile(path) ==
    \E ext \in {".c", ".h", ".cpp", ".hpp", ".cc", ".hh"} : HasSuffix(path, ext)

GoParser_SupportsFile(path) == HasSuffix(path, ".go")

SupportsFile(kind, path) ==
    IF kind = "go" THEN GoParser_SupportsFile(path) ELSE CParser_SupportsFile(path)

\* index of the analyzer selectParser returns, 0 for nil
selectParser_Last(parsers, path) ==
    LET M == { k \in 1..Len(parsers) : SupportsFile(parsers[k], path) }
    IN IF M = {} THEN 0 ELSE CHOOSE k \in M : \A j \in M : j <= k

selectParser_Any(parsers, path) ==
    IF Len(parsers) = 0 THEN 0 ELSE 1

selectParser(parsers, path) ==
    LET M == { k \in 1..Len(parsers) : SupportsFile(parsers[k], path) }
    IN IF M = {} THEN 0 ELSE CHOOSE k \in M : \A j \in M : k <= j

\* ---------------------------------------------------------------- float64

\* A float64 is modelled by what IEEE 754 binary64 arithmetic does: a value
\* is [m |-> bits, e |-> k], the significand as SigBits bits (most
\* significant first, m[1] = 1) and the power of two of its last bit; zero is
\* F64Zero.  Every operation rounds the exact result to the nearest
\* significand, ties to even.  All values here are non-negative and far from
\* the ends of the exponent range.  Long bit strings are added and divided
\* ten bits at a time.
SigBits == 53

F64Zero == [m |-> <<>>, e |-> 0]

Zeros(n) == [i \in 1..n |-> 0]

StripZeros(b) ==
    LET first == CHOOSE i \in 1..(Len(b) + 1) :
                    /\ i = Len(b) + 1 \/ b[i] = 1
                    /\ \A j \in 1..(i - 1) : b[j] = 0
    IN SubSeq(b, first, Len(b))

RECURSIVE BitsOf(_)
BitsOf(n) == IF n = 0 THEN <<>> ELSE Append(BitsOf(n \div 2), n % 2)

\* a bit string as base-1024 digits and back
Pad10(b) == Zeros((10 - (Len(b) % 10)) % 10) \o b

ToLimbs(b) ==
    [ k \in 1..(Len(b) \div 10) |->
        LET c == SubSeq(b, 10 * k - 9, 10 * k)
        IN 512 * c[1] + 256 * c[2] + 128 * c[3] + 64 * c[4] + 32 * c[5]
             + 16 * c[6] + 8 * c[7] + 4 * c[8] + 2 * c[9] + c[10] ]

FromLimbs(l) ==
    [ i \in 1..(10 * Len(l)) |->
        (l[((i - 1) \div 10) + 1] \div (2 ^ (9 - ((i - 1) % 10)))) % 2 ]

RECURSIVE AddLimbs(_, _, _)
AddLimbs(a, b, c) ==
    IF a = <<>> THEN <<c>>
    ELSE LET n == Len(a)
             s == a[n] + b[n] + c
         IN Append(AddLimbs(SubSeq(a, 1, n - 1), SubSeq(b, 1, n - 1), s \div 1024),
                   s % 1024)

\* a + b of two bit strings
AddBits(a, b) ==
    LET n  == IF Len(a) > Len(b) THEN Len(a) ELSE Len(b)
        pa == Pad10(Zeros(n - Len(a)) \o a)
        pb == Pad10(Zeros(n - Len(b)) \o b)
    IN FromLimbs(AddLimbs(ToLimbs(pa), ToLimbs(pb), 0))

RECURSIVE DivLimbs(_, _, _)
DivLimbs(l, d, r) ==
    IF l = <<>> THEN << <<>>, r >>
    ELSE LET t == 1024 * r + l[1]
             rest == DivLimbs(Tail(l), d, t % d)
         IN << <<t \div d>> \o rest[1], rest[2] >>

\* long division of a bit string by d: <<quotient, remainder>>
DivBits(b, d) ==
    LET dv == DivLimbs(ToLimbs(Pad10(b)), d, 0) IN << FromLimbs(dv[1]), dv[2] >>

\* the float64 nearest to (q + x) * 2^e for a bit string q that is zero or has
\* more than SigBits significant bits, and 0 <= x < 1 with x # 0 iff inexact
RoundF64(q0, inexact, e) ==
    LET q == StripZeros(q0)
    IN IF q = <<>> THEN F64Zero
       ELSE LET keep   == SubSeq(q, 1, SigBits)
                sticky == inexact \/ \E i \in (SigBits + 2)..Len(q) : q[i] = 1
                up     == q[SigBits + 1] = 1 /\ (sticky \/ keep[SigBits] = 1)
                ex     == e + Len(q) - SigBits
                s      == StripZeros(AddBits(keep, <<1>>))
            IN IF ~up THEN [m |-> keep, e |-> ex]
               ELSE IF Len(s) > SigBits THEN [m |-> SubSeq(s, 1, SigBits), e |-> ex + 1]
               ELSE [m |-> s, e |-> ex]

\* the float64 nearest to b * 2^e / d for a bit string b and an integer d > 0
F64Quot(b, e, d) ==
    LET k  == SigBits + 1 + Len(BitsOf(d))
        dv == DivBits(b \o Zeros(k), d)
    IN RoundF64(dv[1], dv[2] # 0, e - k)

\* float64(n)
F64OfInt(n) ==
    IF n = 0 THEN F64Zero
    ELSE LET b == BitsOf(n) IN [m |-> b \o Zeros(SigBits - Len(b)), e |-> Len(b) - SigBits]

\* float64(n) / float64(d) for integers n >= 0, d > 0; halving is exact
RECURSIVE F64Div(_, _)
F64Div(n, d) ==
    IF n = 0 THEN F64Zero
    ELSE IF d = 1 THEN F64OfInt(n)
    ELSE IF d % 2 = 0 THEN [F64Div(n, d \div 2) EXCEPT !.e = @ - 1]
    ELSE F64Quot(BitsOf(n), 0, d)

\* x + y
F64Add(x, y) ==
    IF x = F64Zero THEN y
    ELSE IF y = F64Zero THEN x
    ELSE LET e == IF x.e < y.e THEN x.e ELSE y.e
         IN RoundF64(AddBits(x.m \o Zeros(x.e - e), y.m \o Zeros(y.e - e)) \o <<0>>,
                     FALSE, e - 1)

\* x / float64(d) for an integer d > 0
RECURSIVE F64DivInt(_, _)
F64DivInt(x, d) ==
    IF x = F64Zero \/ d = 1 THEN x
    ELSE IF d % 2 = 0 THEN [F64DivInt(x, d \div 2) EXCEPT !.e = @ - 1]
    ELSE F64Quot(x.m, x.e, d)

RECURSIVE MulLimbs(_, _, _)
MulLimbs(a, k, c) ==
    IF a = <<>> THEN << c \div 1024, c % 1024 >>
    ELSE LET s == a[Len(a)] * k + c
         IN Append(MulLimbs(SubSeq(a, 1, Len(a) - 1), k, s \div 1024), s % 1024)

\* x * float64(k) for an integer 0 <= k < 2^20; doubling is exact
RECURSIVE F64MulInt(_, _)
F64MulInt(x, k) ==
    IF x = F64Zero \/ k = 0 THEN F64Zero
    ELSE IF k = 1 THEN x
    ELSE IF k % 2 = 0 THEN [F64MulInt(x, k \div 2) EXCEPT !.e = @ + 1]
    ELSE RoundF64(FromLimbs(MulLimbs(ToLimbs(Pad10(x.m)), k, 0)) \o <<0>>, FALSE, x.e - 1)

RECURSIVE IntOfBits(_)
IntOfBits(b) == IF b = <<>> THEN 0 ELSE 2 * IntOfBits(SubSeq(b, 1, Len(b) - 1)) + b[Len(b)]

\* int(x) for 0 <= x < 2^31
F64Trunc(x) ==
    IF x = F64Zero THEN 0
    ELSE IF x.e >= 0 THEN IntOfBits(x.m \o Zeros(x.e))
    ELSE IntOfBits(SubSeq(x.m, 1, SigBits + x.e))

\* ------------------------------------------------------------------ texts

\* A text is the sequence of its lines (strings.Split(text, "\n"): at least
\* one line), a line the sequence of its tokens, written with one space
\* between them; a blank line is <<>>.  A name is a one-token string.  The
\* identifiers of the texts, in the order of sort.Strings:
WordOrder ==
    << "G", "a", "add", "b", "case", "else", "f", "for", "func", "g", "go", "h",
       "if", "int", "k", "p", "package", "return", "sizeof", "switch", "v", "var",
       "while", "x", "y" >>

\* the tokens that match [a-zA-Z_]\w*
Words == { WordOrder[i] : i \in 1..Len(WordOrder) }

\* sort.Strings of a set of names
SortStrings(S) ==
    LET pick == SelectSeq(WordOrder, LAMBDA w : <<w>> \in S)
    IN [ i \in 1..Len(pick) |-> <<pick[i]>> ]

Contains(s, t) == \E k \in 1..Len(s) : s[k] = t

\* strings.Index, counted from 1; 0 when t does not occur
Index(s, t) ==
    IF Contains(s, t)
    THEN CHOOSE k \in 1..Len(s) : s[k] = t /\ \A j \in 1..(k - 1) : s[j] # t
    ELSE 0

Count(s, t) == Cardinality({ k \in 1..Len(s) : s[k] = t })

HasPrefix(s, t) == Len(s) >= 1 /\ s[1] = t

\* strings.HasPrefix(s, "*"): the tokens that begin with an asterisk
HasPrefixStar(s) == Len(s) >= 1 /\ s[1] \in {"*", "*/"}

\* strings.Contains(s, w + " "): the word, with something after it
ContainsWord(s, w) == \E k \in 1..(Len(s) - 1) : s[k] = w

CountWord(s, w) == Cardinality({ k \in 1..(Len(s) - 1) : s[k] = w })

CountIn(s, T) == Cardinality({ k \in 1..Len(s) : s[k] \in T })

RECURSIVE stripFrom(_, _, _, _, _)
stripFrom(s, k, inSingle, inDouble, escape) ==
    IF k > Len(s) THEN <<>>
    ELSE IF escape THEN stripFrom(s, k + 1, inSingle, inDouble, FALSE)
    ELSE IF s[k] = "\\"
         THEN IF inSingle \/ inDouble
              THEN stripFrom(s, k + 1, inSingle, inDouble, TRUE)
              ELSE <<s[k]>> \o stripFrom(s, k + 1, inSingle, inDouble, FALSE)
    ELSE IF s[k] = "'"
         THEN IF ~inDouble
              THEN stripFrom(s, k + 1, ~inSingle, inDouble, FALSE)
              ELSE <<s[k]>> \o stripFrom(s, k + 1, inSingle, inDouble, FALSE)
    ELSE IF s[k] = "\""
         THEN IF ~inSingle
              THEN stripFrom(s, k + 1, inSingle, ~inDouble, FALSE)
              ELSE <<s[k]>> \o stripFrom(s, k + 1, inSingle, inDouble, FALSE)
    ELSE IF ~inSingle /\ ~inDouble
         THEN <<s[k]>> \o stripFrom(s, k + 1, inSingle, inDouble, FALSE)
         ELSE stripFrom(s, k + 1, inSingle, inDouble, FALSE)

stripStringLiterals(s) == stripFrom(s, 1, FALSE, FALSE, FALSE)

estimateCommentLines_Line_Blank(st, line) ==
    IF st.inBlock
    THEN [count |-> st.count + 1, inBlock |-> ~Contains(line, "*/")]
    ELSE IF line = <<>> \/ ~Contains(line, "/*") THEN st
    ELSE [count |-> st.count + 1, inBlock |-> TRUE]

\* one iteration of the loop of estimateCommentLines
estimateCommentLines_Line(st, line) ==
    IF line = <<>> THEN st
    ELSE IF st.inBlock
    THEN [count |-> st.count + 1, inBlock |-> ~Contains(line, "*/")]
    ELSE IF HasPrefix(line, "//") THEN [st EXCEPT !.count = @ + 1]
    ELSE LET idx == Index(line, "/*")
         IN IF idx > 0
            THEN [count |-> st.count + 1,
                  inBlock |-> ~Contains(SubSeq(line, idx + 1, Len(line)), "*/")]
            ELSE st

RECURSIVE estimateCommentLines_From(_, _, _)
estimateCommentLines_From(lines, i, st) ==
    IF i > Len(lines) THEN st.count
    ELSE estimateCommentLines_From(lines, i + 1, estimateCommentLines_Line(st, lines[i]))

estimateCommentLines(lines) ==
    estimateCommentLines_From(lines, 1, [count |-> 0, inBlock |-> FALSE])

DecisionKeywords == {"if", "for", "while", "case", "switch"}

BoolOps == {"&&", "||", "?"}

Max(a, b) == IF a > b THEN a ELSE b

Min(a, b) == IF a < b THEN a ELSE b

\* where both metric engines start
TextMetricsZero_NoBase ==
    [ nloc |-> 0, ccn |-> 0, cognitive |-> 0, maxNesting |-> 0, locals |-> 0,
      commentLines |-> 0, depth |-> 0, inBlock |-> FALSE ]

TextMetricsZero ==
    [ nloc |-> 0, ccn |-> 1, cognitive |-> 0, maxNesting |-> 0, locals |-> 0,
      commentLines |-> 0, depth |-> 0, inBlock |-> FALSE ]

\* the part of a line of code that computeTextMetricsForRange counts
computeTextMetricsForRange_Code(st, trimmed) ==
    IF HasPrefix(trimmed, "#") THEN st
    ELSE LET code == stripStringLiterals(trimmed)
             decisions == CountIn(code, DecisionKeywords)
             bools == CountIn(code, BoolOps)
             blockDepth == Max(0, st.depth + Count(code, "{") - Count(code, "}"))
         IN [st EXCEPT !.nloc = @ + 1,
                       !.ccn = @ + decisions + bools,
                       !.depth = blockDepth,
                       !.maxNesting = Max(@, blockDepth),
                       !.cognitive = @ + decisions + blockDepth]

\* one iteration of the loop of computeTextMetricsForRange
computeTextMetricsForRange_Line(st, line) ==
    IF line = <<>> THEN st
    ELSE IF st.inBlock
    THEN [st EXCEPT !.commentLines = @ + 1, !.inBlock = ~Contains(line, "*/")]
    ELSE LET bi == Index(line, "/*")
             before == IF bi > 0 THEN SubSeq(line, 1, bi - 1) ELSE line
             s1 == IF bi > 0 THEN [st EXCEPT !.commentLines = @ + 1] ELSE st
         IN IF bi > 0 /\ ~Contains(SubSeq(line, bi + 1, Len(line)), "*/")
            THEN [s1 EXCEPT !.inBlock = TRUE]
            ELSE IF bi > 0 /\ before = <<>> THEN s1
            ELSE LET li == Index(before, "//")
                     code == IF li > 0 THEN SubSeq(before, 1, li - 1) ELSE before
                     s2 == IF li > 0 THEN [s1 EXCEPT !.commentLines = @ + 1] ELSE s1
                 IN IF code = <<>> THEN s2
                    ELSE computeTextMetricsForRange_Code(s2, code)

RECURSIVE computeTextMetricsForRange_From(_, _, _, _)
computeTextMetricsForRange_From(lines, i, endLine, st) ==
    IF i > endLine THEN st
    ELSE computeTextMetricsForRange_From(lines, i + 1, endLine,
            computeTextMetricsForRange_Line(st, lines[i]))

computeTextMetricsForRange(lines, startLine, endLine) ==
    computeTextMetricsForRange_From(lines, Max(1, startLine), Min(Len(lines), endLine),
                                    TextMetricsZero)

\* the braces of a line, one after the other (lines 571-583)
RECURSIVE countBraces(_, _, _)
countBraces(line, k, st) ==
    IF k > Len(line) THEN st
    ELSE IF line[k] = "{"
    THEN countBraces(line, k + 1,
            [st EXCEPT !.depth = @ + 1, !.maxNesting = Max(@, st.depth + 1)])
    ELSE IF line[k] = "}"
    THEN countBraces(line, k + 1, [st EXCEPT !.depth = Max(0, @ - 1)])
    ELSE countBraces(line, k + 1, st)

\* the part of a line of code that computeTextMetricsForRangeWithExcludes
\* counts (lines 569-637)
computeTextMetricsForRangeWithExcludes_Code(st, line, trimmed) ==
    LET s1 == countBraces(line, 1, [st EXCEPT !.nloc = @ + 1])
        b(c) == IF c THEN 1 ELSE 0
        ccnLine == b(ContainsWord(trimmed, "if")) + b(ContainsWord(trimmed, "for"))
                     + b(ContainsWord(trimmed, "switch")) + CountWord(trimmed, "case")
                     + b(Contains(trimmed, "default:")) + b(ContainsWord(trimmed, "goto"))
        boolOps == Count(trimmed, "&&") + Count(trimmed, "||")
        cogLine == ccnLine + boolOps
                     + b(Len(trimmed) >= 2 /\ trimmed[1] = "return" /\ s1.depth > 0)
    IN [s1 EXCEPT !.ccn = @ + ccnLine,
                  !.cognitive = @ + cogLine * (1 + s1.depth),
                  !.locals = @ + b(Contains(line, ":=")
                                     \/ (Len(trimmed) >= 2 /\ trimmed[1] = "var"))]

inExcluded(excludes, lineNo) ==
    \E r \in 1..Len(excludes) : lineNo >= excludes[r].Start /\ lineNo <= excludes[r].End

\* one iteration of the loop of computeTextMetricsForRangeWithExcludes
computeTextMetricsForRangeWithExcludes_Line(st, line) ==
    IF st.inBlock
    THEN [st EXCEPT !.commentLines = @ + 1, !.inBlock = ~Contains(line, "*/")]
    ELSE IF line = <<>> THEN st
    ELSE IF HasPrefix(line, "//") THEN [st EXCEPT !.commentLines = @ + 1]
    ELSE LET li == Index(line, "//")
             trimmed == IF li > 0 THEN SubSeq(line, 1, li - 1) ELSE line
         IN IF HasPrefix(trimmed, "/*")
            THEN [st EXCEPT !.commentLines = @ + 1,
                            !.inBlock = ~Contains(trimmed, "*/")]
            ELSE computeTextMetricsForRangeWithExcludes_Code(st, line, trimmed)

RECURSIVE computeTextMetricsForRangeWithExcludes_From(_, _, _, _, _)
computeTextMetricsForRangeWithExcludes_From(lines, i, end, excludes, st) ==
    IF i > end \/ i > Len(lines) THEN st
    ELSE computeTextMetricsForRangeWithExcludes_From(lines, i + 1, end, excludes,
            IF inExcluded(excludes, i) THEN st
            ELSE computeTextMetricsForRangeWithExcludes_Line(st, lines[i]))

computeTextMetricsForRangeWithExcludes(lines, start, end, excludes) ==
    computeTextMetricsForRangeWithExcludes_From(lines, start, end, excludes, TextMetricsZero)

\* -------------------------------------------------------------- analyzers

\* float64(n) / float64(d), 0.0 when the guard d > 0 of the code fails
Ratio_Unguarded(n, d) == IF d > 0 THEN F64Div(n, d) ELSE [m |-> <<>>, e |-> 1]

Ratio(n, d) == IF d > 0 THEN F64Div(n, d) ELSE F64Zero

\* a FunctionMetrics as the analyzers fill it: m are the text metrics
NewFunctionMetrics(name, path, language, start, end, m, params, callees, public, doc) ==
    [ Name |-> name, Signature |-> name, FilePath |-> path, Language |-> language,
      StartLine |-> start, EndLine |-> end, NLOC |-> m.nloc, Parameters |-> params,
      LocalVariables |-> m.locals, CCN |-> m.ccn, CognitiveComplexity |-> m.cognitive,
      MaxNesting |-> m.maxNesting, FanIn |-> 0, FanOut |-> Len(callees),
      CommentDensity |-> Ratio(m.commentLines, m.nloc + m.commentLines),
      HotspotScore |-> 0, Callees |-> callees, IsPublic |-> public,
      IsDocumented |-> doc ]

\* Summary.FunctionsCount
FunctionsCount_TopLevel(fns) ==
    Cardinality({ j \in 1..Len(fns) : Len(fns[j].Name) = 1 })

FunctionsCount(fns) == Len(fns)

MaxOver(s) == IF s = <<>> THEN 0 ELSE CHOOSE v \in { s[k] : k \in 1..Len(s) } :
                                        \A k \in 1..Len(s) : s[k] <= v

SummaryOf(fns) ==
    LET ccns == [ k \in 1..Len(fns) |-> fns[k].CCN ]
    IN [ NLOC |-> SumSeq([ k \in 1..Len(fns) |-> fns[k].NLOC ]),
         CCNTotal |-> SumSeq(ccns),
         CCNAvgPerFunction |-> Ratio(SumSeq(ccns), Len(fns)),
         CCNMaxFunction |-> MaxOver(ccns),
         FunctionsCount |-> FunctionsCount(fns),
         FunctionsCCNGt10 |-> Cardinality({ k \in 1..Len(fns) : fns[k].CCN > 10 }),
         FunctionsCCNGt20 |-> Cardinality({ k \in 1..Len(fns) : fns[k].CCN > 20 }) ]

\* the FileMetrics both analyzers assemble; Git is <<>> (nil) or <<metrics>>
NewFileMetrics(path, language, totalLines, commentLines, fns) ==
    [ Path |-> path,
      Language |-> language,
      Comments |-> [ TotalLines |-> totalLines, CommentLines |-> commentLines,
                     CommentDensity |-> Ratio(commentLines, totalLines) ],
      Functions |-> fns,
      Summary |-> SummaryOf(fns),
      Smells |-> <<>>,
      Git |-> <<>> ]

\* the smells of the Go analyzer, function by function
RECURSIVE SmellsOf(_)
SmellsOf(fns) ==
    IF fns = <<>> THEN <<>>
    ELSE LET fn == Head(fns)
             CodeSmell(kind) == [ Kind |-> kind, FilePath |-> fn.FilePath,
                                  Function |-> fn.Name, Line |-> fn.StartLine ]
         IN (IF fn.Parameters >= 5 THEN << CodeSmell("many_parameters") >> ELSE <<>>)
            \o (IF fn.LocalVariables >= 15 THEN << CodeSmell("many_locals") >> ELSE <<>>)
            \o (IF fn.MaxNesting >= 4 THEN << CodeSmell("deep_nesting") >> ELSE <<>>)
            \o SmellsOf(Tail(fns))

isControlKeyword(name) == name \in {"if", "for", "while", "switch", "return"}

\* funcHeaderRe, \b([a-zA-Z_]\w*)\s*\([^()]*\)\s*$ : <<>> or <<the name>>
funcHeaderRe(candidate) ==
    LET n == Len(candidate)
        P == { k \in 1..(n - 1) : candidate[k] \in {"(", ")"} }
        k == CHOOSE a \in P : \A c \in P : c <= a
    IN IF n >= 3 /\ candidate[n] = ")" /\ P # {}
            /\ candidate[k] = "(" /\ k >= 2 /\ candidate[k - 1] \in Words
       THEN << candidate[k - 1] >>
       ELSE <<>>

\* cCallRegexp over the lines of a function, without control keywords and sizeof
extractCFunctionCalls(lines, start, end) ==
    SortStrings(UNION {
        { << lines[i][k] >> :
            k \in { c \in 1..(Len(lines[i]) - 1) :
                      /\ lines[i][c] \in Words
                      /\ lines[i][c + 1] = "("
                      /\ ~isControlKeyword(lines[i][c])
                      /\ lines[i][c] # "sizeof" } } :
        i \in { l \in start..Min(end, Len(lines)) : ~HasPrefix(lines[l], "//") } })

BraceBalance(lines, from, to) ==
    SumSeq([ i \in 1..(to - from + 1) |->
               Count(lines[from + i - 1], "{") - Count(lines[from + i - 1], "}") ])

CParser_Idle(functions) ==
    [ inFunc |-> FALSE, funcStart |-> 0, funcName |-> <<>>, braceDepth |-> 0,
      headerBuf |-> <<>>, headerStart |-> -1, functions |-> functions ]

\* one iteration of the line loop of CParser.ParseFile (lines 73-173);
\* line numbers count from 1
CParser_Line(path, lines, i, st) ==
    LET trimmed == lines[i]
    IN IF ~st.inFunc
       THEN IF trimmed = <<>> \/ HasPrefix(trimmed, "//") \/ HasPrefix(trimmed, "/*")
                \/ HasPrefixStar(trimmed) \/ HasPrefix(trimmed, "#")
            THEN [st EXCEPT !.headerBuf = <<>>, !.headerStart = -1]
            ELSE LET headerStart == IF st.headerStart = -1 THEN i ELSE st.headerStart
                     headerBuf == st.headerBuf \o trimmed
                     candidate == SubSeq(headerBuf, 1, Index(headerBuf, "{") - 1)
                     m == funcHeaderRe(candidate)
                 IN IF ~Contains(trimmed, "{")
                    THEN [st EXCEPT !.headerBuf = headerBuf, !.headerStart = headerStart]
                    ELSE IF m # <<>> /\ ~isControlKeyword(m[1])
                    THEN [st EXCEPT !.inFunc = TRUE, !.funcName = m,
                                    !.funcStart = headerStart,
                                    !.braceDepth = BraceBalance(lines, headerStart, i),
                                    !.headerBuf = <<>>, !.headerStart = -1]
                    ELSE [st EXCEPT !.headerBuf = <<>>, !.headerStart = -1]
       ELSE LET braceDepth == st.braceDepth + Count(lines[i], "{") - Count(lines[i], "}")
            IN IF braceDepth <= 0
               THEN CParser_Idle(Append(st.functions,
                        NewFunctionMetrics(st.funcName, path, "c", st.funcStart, i,
                            computeTextMetricsForRange(lines, st.funcStart, i), 0,
                            extractCFunctionCalls(lines, st.funcStart, i), FALSE, FALSE)))
               ELSE [st EXCEPT !.braceDepth = braceDepth]

RECURSIVE CParser_Lines(_, _, _, _)
CParser_Lines(path, lines, i, st) ==
    IF i > Len(lines) THEN st.functions
    ELSE CParser_Lines(path, lines, i + 1, CParser_Line(path, lines, i, st))

\* ParseFile: <<"ok", fm>> or <<"err", cause>>; src is what ReadFile returned,
\* [lines |-> the text, ast |-> what go/parser makes of it]
CParser_ParseFile(path, src) ==
    << "ok", NewFileMetrics(path, "c", Len(src.lines), estimateCommentLines(src.lines),
                            CParser_Lines(path, src.lines, 1, CParser_Idle(<<>>))) >>

\* what go/parser returns for a text that is not Go
SyntaxError == [err |-> TRUE, decls |-> <<>>]

\* fmt.Sprintf("@%d-%d", s, e)
LitName(s, e) == << "@", s, "-", e >>

\* the excluded ranges of analyzeGoFunction (lines 351-364)
GoExcludes(d, start, end) ==
    LET clipped == [ k \in 1..Len(d.Lits) |->
                       [Start |-> Max(d.Lits[k].Start, start), End |-> Min(d.Lits[k].End, end)] ]
    IN SelectSeq(clipped, LAMBDA r : r.Start <= r.End)

\* analyzeGoFunction: the function itself, then one entry per function literal
analyzeGoFunction(path, lines, d) ==
    LET start == Max(1, d.Start)
        end   == Min(Len(lines), d.End)
        mainFn == NewFunctionMetrics(d.Name, path, "go", start, end,
                     computeTextMetricsForRangeWithExcludes(lines, start, end,
                                                            GoExcludes(d, start, end)),
                     d.Params, SortStrings(d.Calls), d.Exported, d.Doc)
        lits  == SelectSeq(d.Lits, LAMBDA l : Max(1, l.Start) <= Min(Len(lines), l.End))
        nestedFns ==
            [ k \in 1..Len(lits) |->
                LET s == Max(1, lits[k].Start)
                    e == Min(Len(lines), lits[k].End)
                IN NewFunctionMetrics(LitName(s, e), path, "go", s, e,
                       computeTextMetricsForRangeWithExcludes(lines, s, e, <<>>),
                       lits[k].Params, SortStrings(lits[k].Calls), FALSE, FALSE) ]
    IN <<mainFn>> \o nestedFns

RECURSIVE GoParser_Decls(_, _, _, _)
GoParser_Decls(path, lines, decls, functions) ==
    IF decls = <<>> THEN functions
    ELSE GoParser_Decls(path, lines, Tail(decls),
            IF ~Head(decls).IsFunc \/ ~Head(decls).HasBody \/ Head(decls).Name = <<>>
            THEN functions
            ELSE functions \o analyzeGoFunction(path, lines, Head(decls)))

GoParser_ParseFile(path, src) ==
    IF src.ast.err THEN <<"err", "syntax error">>
    ELSE LET functions == GoParser_Decls(path, src.lines, src.ast.decls, <<>>)
         IN << "ok", [ NewFileMetrics(path, "go", Len(src.lines),
                                      estimateCommentLines(src.lines), functions)
                           EXCEPT !.Smells = SmellsOf(functions) ] >>

ParseFile(kind, path, src) ==
    IF kind = "go" THEN GoParser_ParseFile(path, src) ELSE CParser_ParseFile(path, src)

\* ---------------------------------------------------------------- sources

\* the lines a C text is made of
CLines ==
    { <<>>,
      << "int", "f", "(", ")", "{" >>,
      << "int", "h", "(", ")", "{", "}" >>,
      << "int", "g", "(", "x", ")" >>,
      << "{" >>,
      << "}" >>,
      << "if", "(", "x", "&&", "f", "(", ")", ")", "{" >>,
      << "x", "=", "\"", "if", "&&", "\"", ";" >>,
      << "//", "if" >>,
      << "/*", "if" >>,
      << "*/" >> }

\* two functions, the second calling the first twice
CTwoCalls ==
    << << "int", "f", "(", ")", "{" >>,
       << "}" >>,
       << "int", "g", "(", ")", "{" >>,
       << "f", "(", ")", ";", "f", "(", ")", ";" >>,
       << "}" >> >>

\* int add(int a,int b){ if(a>0 && b>0){ return a+b;} return a+b; } on one
\* line and over several lines, each with and without a newline at the end
\* of the text
CAddTexts ==
    LET CAdd ==
            << << "int", "add", "(", "int", "a", ",", "int", "b", ")", "{",
                  "if", "(", "a", ">", "0", "&&", "b", ">", "0", ")", "{",
                  "return", "a", "+", "b", ";", "}", "return", "a", "+", "b", ";", "}" >> >>
        CAddLines ==
            << << "int", "add", "(", "int", "a", ",", "int", "b", ")", "{" >>,
               << "if", "(", "a", ">", "0", "&&", "b", ">", "0", ")", "{" >>,
               << "return", "a", "+", "b", ";", "}" >>,
               << "return", "a", "+", "b", ";" >>,
               << "}" >> >>
    IN { CAdd, CAdd \o << <<>> >>, CAddLines, CAddLines \o << <<>> >> }

\* the texts of up to MaxLines of these lines, and: the two functions; a block
\* comment opened after code, over a blank line, and a line comment; a
\* closing brace in a quoted literal, before a branch; the add function
CTexts ==
    (SeqsUpTo(CLines, MaxLines) \ {<<>>})
        \cup { CTwoCalls,
               << << "int", "x", ";", "/*", "if" >>,
                  <<>>,
                  << "x", "*/" >>,
                  << "//", "if" >>,
                  << "int", "x", ";" >> >>,
               << << "int", "f", "(", ")", "{" >>,
                  << "x", "=", "\"", "}", "\"", ";" >>,
                  << "if", "(", "x", ")", "{", "}" >>,
                  << "}" >> >> }
        \cup CAddTexts

\* a top-level declaration of a Go file as go/parser reports it, with the
\* lines it is written on; positions count from the declaration's first line
GoDecl(name, last, params, calls, exported, lits) ==
    [ IsFunc |-> TRUE, HasBody |-> TRUE, Name |-> name, Start |-> 1, End |-> last,
      Params |-> params, Calls |-> calls, Exported |-> exported, Doc |-> FALSE,
      Lits |-> lits ]

GoPlain ==
    [ lines |-> << << "func", "f", "(", ")", "{" >>, << "}" >> >>,
      decl |-> GoDecl(<<"f">>, 2, 0, {}, FALSE, <<>>) ]

GoBranch ==
    [ lines |-> << << "func", "G", "(", "x", "int", ")", "{" >>,
                   << "if", "x", "&&", "f", "(", ")", "{" >>,
                   << "f", "(", ")" >>,
                   << "}" >>,
                   << "}" >> >>,
      decl |-> GoDecl(<<"G">>, 5, 1, {<<"f">>}, TRUE, <<>>) ]

GoLit ==
    [ lines |-> << << "func", "h", "(", ")", "{" >>,
                   << "go", "func", "(", ")", "{" >>,
                   << "if", "x", "{" >>,
                   << "f", "(", ")" >>,
                   << "}" >>,
                   << "}", "(", ")" >>,
                   << "}" >> >>,
      decl |-> GoDecl(<<"h">>, 7, 0, {},  FALSE,
                      << [Start |-> 2, End |-> 6, Params |-> 0, Calls |-> {<<"f">>}] >>) ]

\* a function literal inside a function literal
GoNested ==
    [ lines |-> << << "func", "g", "(", ")", "{" >>,
                   << "go", "func", "(", ")", "{" >>,
                   << "go", "func", "(", ")", "{" >>,
                   << "if", "x", "{" >>,
                   << "}" >>,
                   << "}", "(", ")" >>,
                   << "}", "(", ")" >>,
                   << "}" >> >>,
      decl |-> GoDecl(<<"g">>, 8, 0, {}, FALSE,
                      << [Start |-> 2, End |-> 7, Params |-> 0, Calls |-> {}],
                         [Start |-> 3, End |-> 6, Params |-> 0, Calls |-> {}] >>) ]

\* a keyword and a brace in a quoted literal
GoQuoted ==
    [ lines |-> << << "func", "k", "(", ")", "{" >>,
                   << "x", ":=", "\"", "if", "y", "{", "\"" >>,
                   << "}" >> >>,
      decl |-> GoDecl(<<"k">>, 3, 0, {}, FALSE, <<>>) ]

GoOneLine ==
    [ lines |-> << << "func", "k", "(", ")", "{", "go", "func", "(", ")", "{", "}",
                      "(", ")", "}" >> >>,
      decl |-> GoDecl(<<"k">>, 1, 0, {}, FALSE,
                      << [Start |-> 1, End |-> 1, Params |-> 0, Calls |-> {}] >>) ]

GoCommented ==
    [ lines |-> << << "/*", "x", "*/", "func", "g", "(", ")", "{", "if", "x", "{",
                      "}", "}" >> >>,
      decl |-> GoDecl(<<"g">>, 1, 0, {}, FALSE, <<>>) ]

GoExtern ==
    [ lines |-> << << "func", "x", "(", ")" >> >>,
      decl |-> [GoDecl(<<"x">>, 1, 0, {}, FALSE, <<>>) EXCEPT !.HasBody = FALSE] ]

GoVar ==
    [ lines |-> << << "var", "v", "=", "1" >> >>,
      decl |-> [GoDecl(<<"v">>, 1, 0, {}, FALSE, <<>>) EXCEPT !.IsFunc = FALSE] ]

GoTemplates ==
    { GoPlain, GoBranch, GoLit, GoNested, GoQuoted, GoOneLine, GoCommented, GoExtern,
      GoVar }

\* a declaration moved down by n lines
ShiftDecl(d, n) ==
    [d EXCEPT !.Start = @ + n, !.End = @ + n,
              !.Lits = [ k \in 1..Len(d.Lits) |->
                           [d.Lits[k] EXCEPT !.Start = @ + n, !.End = @ + n] ]]

RECURSIVE GoFileFrom(_, _)
GoFileFrom(ts, src) ==
    IF ts = <<>> THEN src
    ELSE GoFileFrom(Tail(ts),
            [ lines |-> src.lines \o Head(ts).lines,
              ast |-> [src.ast EXCEPT
                         !.decls = Append(@, ShiftDecl(Head(ts).decl, Len(src.lines)))] ])

\* the Go file with the package clause and the given declarations
GoFile(ts) ==
    GoFileFrom(ts, [ lines |-> << << "package", "p" >> >>,
                     ast |-> [err |-> FALSE, decls |-> <<>>] ])

GoSources == { GoFile(ts) : ts \in SeqsUpTo(GoTemplates, MaxDecls) }

CSources == { [lines |-> t, ast |-> SyntaxError] : t \in CTexts }

\* what ReadFile can return for a file of the tree: a text that is not Go, a
\* Go file without functions, a Go file with two functions
Sources ==
    { [lines |-> << << "int", "x", ";" >> >>, ast |-> SyntaxError],
      GoFile(<<>>),
      GoFile(<< GoBranch, GoPlain >>) }

\* ParseFile over the files of the tree
ParsedTree ==
    [ kind \in {"go", "c"} |-> [ p \in Paths |-> [ s \in Sources |-> ParseFile(kind, p, s) ] ] ]

\* ------------------------------------------------------------ aggregation

\* filepath.Rel(root, p) for a path below root
Rel(root, p) ==
    IF Len(p) >= Len(root) /\ SubSeq(p, 1, Len(root)) = root
    THEN SubSeq(p, Len(root) + 1, Len(p))
    ELSE <<"..">> \o p

\* math.Log1p, in thousandths, rounded down
Log1p(x) ==
    CASE x = 0 -> 0
      [] x = 1 -> 693
      [] x = 2 -> 1098
      [] x = 3 -> 1386
      [] x = 4 -> 1609
      [] x = 5 -> 1791
      [] x = 6 -> 1945
      [] OTHER -> 2079

\* the attachment loop of Execute: exact path first, root-relative second
AttachGit(root, files, gm) ==
    [ i \in 1..Len(files) |->
        LET p == files[i].Path
        IN IF p \in DOMAIN gm THEN [files[i] EXCEPT !.Git = <<gm[p]>>]
           ELSE IF Rel(root, p) \in DOMAIN gm
                THEN [files[i] EXCEPT !.Git = <<gm[Rel(root, p)]>>]
                ELSE files[i] ]

Churn(f) == f.Git[1].LinesAdded + f.Git[1].LinesDeleted

\* float64(ccn) * math.Log1p(float64(churn)), in thousandths
HotspotScore_Inverse(ccn, churn) == ccn * (Log1p(7) - Log1p(churn))

HotspotScore(ccn, churn) == ccn * Log1p(churn)

\* the files annotateFunctionHotspots and buildHotspots pass over
HasChurn_Always(f) == f.Git # <<>>

HasChurn(f) == f.Git # <<>> /\ Churn(f) # 0

\* the FanIn a function gains: one for every entry of a Callees list of the
\* project that is its name
FanInGain_SameFile(files, i, j) ==
    SumSeq([ b \in 1..Len(files[i].Functions) |->
        Occurrences(files[i].Functions[b].Callees, files[i].Functions[j].Name) ])

FanInGain(files, i, j) ==
    SumSeq([ a \in 1..Len(files) |->
        SumSeq([ b \in 1..Len(files[a].Functions) |->
            Occurrences(files[a].Functions[b].Callees, files[i].Functions[j].Name) ]) ])

annotateFunctionCoupling(files) ==
    [ i \in 1..Len(files) |->
        [files[i] EXCEPT !.Functions =
            [ j \in 1..Len(files[i].Functions) |->
                IF files[i].Functions[j].Name = <<>> THEN files[i].Functions[j]
                ELSE [files[i].Functions[j] EXCEPT !.FanIn = @ + FanInGain(files, i, j)] ] ] ]

annotateFunctionHotspots_Drop(files) ==
    SelectSeq(files, LAMBDA f : f.Git # <<>>)

annotateFunctionHotspots(files) ==
    [ i \in 1..Len(files) |->
        IF ~HasChurn(files[i]) THEN files[i]
        ELSE [files[i] EXCEPT !.Functions =
                [ j \in 1..Len(files[i].Functions) |->
                    [files[i].Functions[j] EXCEPT
                        !.HotspotScore =
                            HotspotScore(files[i].Functions[j].CCN, Churn(files[i]))] ] ] ]

TopN == 10

Qualifies(f) == f.Summary.CCNTotal # 0 /\ HasChurn(f)

HotspotOf(f) ==
    [ FilePath |-> f.Path, Reason |-> "complexity x churn",
      Score |-> HotspotScore(f.Summary.CCNTotal, Churn(f)),
      CCN |-> f.Summary.CCNTotal, Churn |-> Churn(f) ]

\* the orders sort.Slice (not a stable sort) can leave the entries S of hs
\* in: scores never increase, entries of one score come in any order
RECURSIVE SortedOrders(_, _)
SortedOrders(hs, S) ==
    IF S = {} THEN { <<>> }
    ELSE LET top == { i \in S : \A j \in S : hs[i].Score >= hs[j].Score }
         IN UNION { { <<i>> \o r : r \in SortedOrders(hs, S \ {i}) } : i \in top }

\* the cut of lines 312-314
FirstTopN_All(hs) == hs

FirstTopN(hs) == IF Len(hs) > TopN THEN SubSeq(hs, 1, TopN) ELSE hs

\* the lists buildHotspots can return
buildHotspots(files) ==
    LET qualifying == SelectSeq(files, Qualifies)
        hs == [ k \in 1..Len(qualifying) |-> HotspotOf(qualifying[k]) ]
    IN { FirstTopN([ k \in 1..Len(hs) |-> hs[o[k]] ]) : o \in SortedOrders(hs, 1..Len(hs)) }

RECURSIVE Flatten(_)
Flatten(ss) == IF ss = <<>> THEN <<>> ELSE Head(ss) \o Flatten(Tail(ss))

\* sort.Ints
RECURSIVE SortInts(_)
SortInts(s) ==
    IF s = <<>> THEN <<>>
    ELSE LET k == CHOOSE a \in 1..Len(s) : \A b \in 1..Len(s) : s[a] <= s[b]
         IN <<s[k]>> \o SortInts(SubSeq(s, 1, k - 1) \o SubSeq(s, k + 1, Len(s)))

\* the sum a loop builds from 0.0 by += over the values in order
RECURSIVE F64Sum(_)
F64Sum(s) ==
    IF s = <<>> THEN F64Zero ELSE F64Add(F64Sum(SubSeq(s, 1, Len(s) - 1)), s[Len(s)])

\* int(0.95 * float64(len(sizes) - 1)), clamped (lines 260-266); counted from 0
P95Factor == F64Div(95, 100)

P95Index_Last(n) == n - 1

P95Index(n) == Max(0, Min(n - 1, F64Trunc(F64MulInt(P95Factor, n - 1))))

\* the statistics of buildProjectReport (lines 173-269)
ProjectOf(files) ==
    LET fns     == Flatten([ i \in 1..Len(files) |-> files[i].Functions ])
        n       == Len(fns)
        sizes   == SortInts([ k \in 1..n |-> fns[k].NLOC ])
        mid     == n \div 2
        counted == SelectSeq(files, LAMBDA f : f.Comments.TotalLines > 0)
        withGit == SelectSeq(files, LAMBDA f : f.Git # <<>>)
        Sum(g(_), s) == SumSeq([ k \in 1..Len(s) |-> g(s[k]) ])
        Num(P(_), s) == Len(SelectSeq(s, P))
    IN [ TotalFiles |-> Len(files),
         TotalFunctions |-> n,
         AvgCCNPerFunction |-> Ratio(Sum(LAMBDA f : f.Summary.CCNTotal, files), n),
         MaxCCNPerFunction |->
            MaxOver([ i \in 1..Len(files) |-> files[i].Summary.CCNMaxFunction ]),
         FunctionsCCNGt10Pct |-> Ratio(Sum(LAMBDA f : f.Summary.FunctionsCCNGt10, files), n),
         FunctionsCCNGt20Pct |-> Ratio(Sum(LAMBDA f : f.Summary.FunctionsCCNGt20, files), n),
         MedianFunctionSize |->
            IF n = 0 THEN F64Zero
            ELSE IF n % 2 = 1 THEN F64OfInt(sizes[mid + 1])
            ELSE F64Div(sizes[mid] + sizes[mid + 1], 2),
         P95FunctionSize |->
            IF n = 0 THEN F64Zero ELSE F64OfInt(sizes[P95Index(n) + 1]),
         FunctionsGt50Lines |-> Num(LAMBDA fn : fn.NLOC > 50, fns),
         FunctionsGt80Lines |-> Num(LAMBDA fn : fn.NLOC > 80, fns),
         FunctionsGt100Lines |-> Num(LAMBDA fn : fn.NLOC > 100, fns),
         AvgParamsPerFunction |-> Ratio(Sum(LAMBDA fn : fn.Parameters, fns), n),
         FunctionsParamsGe5 |-> Num(LAMBDA fn : fn.Parameters >= 5, fns),
         CommentDensityAvg |->
            IF Len(counted) > 0
            THEN F64DivInt(F64Sum([ k \in 1..Len(counted) |->
                                      counted[k].Comments.CommentDensity ]),
                           Len(counted))
            ELSE F64Zero,
         GitTotalLinesAdded |-> Sum(LAMBDA f : f.Git[1].LinesAdded, withGit),
         GitTotalLinesDeleted |-> Sum(LAMBDA f : f.Git[1].LinesDeleted, withGit),
         GitTotalCommits |-> Sum(LAMBDA f : f.Git[1].Commits, withGit) ]

\* the reports buildProjectReport can return
buildProjectReport(root, files, warns) ==
    LET annotated == annotateFunctionHotspots(annotateFunctionCoupling(files))
    IN { [ RootPath |-> root, Files |-> annotated, Project |-> ProjectOf(files),
           Hotspots |-> hs, Warnings |-> warns ] : hs \in buildHotspots(annotated) }

\* ------------------------------------------------------------------ state

VARIABLES
    pc,             \* position of Execute: idle, collectResults, collectErrs,
                    \* git, save, done
    ctxDone,        \* the run's cancellation signal
    rootPath,       \* req.RootPath
    parsers,        \* uc.parsers, analyzer kinds in priority order
    workers,        \* uc.workers after defaulting
    filesList,      \* what the scanner returned
    ppc,            \* producer goroutine: idle, run, closed (jobs closed)
    next,           \* producer's index into filesList
    wpc,            \* worker goroutine: recv, check, read, senderr, sendres,
                    \* done
    wpath,          \* worker's current path
    wfm,            \* worker's parsed FileMetrics, <<>> or <<fm>>
    werr,           \* worker's pending error, <<>> or <<e>>
    cpc,            \* closer goroutine: idle, wait, closeErr, done
    resultsClosed,  \* close(results) happened
    errClosed,      \* close(errCh) happened
    errCh,          \* buffered error channel
    files,          \* collected []FileMetrics
    warnings,       \* collected []string
    gitRet,         \* what CollectFileMetrics returned, <<>> before the call
    report,         \* <<>> or <<the built ProjectReport>>
    result,         \* what Execute returned: <<>>, <<"report">>, <<"error", msg>>
    deqCnt,         \* history: per path, number of dequeues
    readCnt,        \* history: per path, number of ReadFile calls
    parseCalls,     \* history: <<path, analyzer index>> of every ParseFile call
    outcomes,       \* history: per kind (readerr, parseerr, skipped, ok) and
                    \* path, how many times a worker ended a file that way
    saw,            \* history: workers that were at the ctx check with the
                    \* signal set
    scanRet,        \* history: what Scan returned, <<>> before the call
    saveRet,        \* history: whether Save succeeded, <<>> before the call
    unitPc,         \* position of a run of an analyzer or of
                    \* buildProjectReport on its own: idle; source, parsed,
                    \* report; files, report
    source,         \* the path and text handed to ParseFile
    parsed,         \* <<>> or <<what ParseFile returned>>
    aggIn,          \* the []FileMetrics handed to buildProjectReport
    aggOut          \* <<>> or <<the ProjectReport it returned>>

vars ==
    << pc, ctxDone, rootPath, parsers, workers, filesList, ppc, next, wpc, wpath,
       wfm, werr, cpc, resultsClosed, errClosed, errCh, files,
       warnings, gitRet, report, result, deqCnt, readCnt, parseCalls, outcomes, saw,
       scanRet, saveRet, unitPc, source, parsed, aggIn, aggOut >>

unitVars == << unitPc, source, parsed, aggIn, aggOut >>

Workers == 1..workers

OutcomeKinds == {"readerr", "parseerr", "skipped", "ok"}

\* Execute has not been called
ExecuteIdle ==
    /\ pc = "idle"
    /\ ctxDone = FALSE
    /\ rootPath = <<>>
    /\ parsers = <<>>
    /\ workers = 0
    /\ filesList = <<>>
    /\ ppc = "idle"
    /\ next = 1
    /\ wpc = <<>>
    /\ wpath = <<>>
    /\ wfm = <<>>
    /\ werr = <<>>
    /\ cpc = "idle"
    /\ resultsClosed = FALSE
    /\ errClosed = FALSE
    /\ errCh = <<>>
    /\ files = <<>>
    /\ warnings = <<>>
    /\ gitRet = <<>>
    /\ report = <<>>
    /\ result = <<>>
    /\ deqCnt = [p \in Paths |-> 0]
    /\ readCnt = [p \in Paths |-> 0]
    /\ parseCalls = {}
    /\ outcomes = [k \in OutcomeKinds |-> [p \in Paths |-> 0]]
    /\ saw = {}
    /\ scanRet = <<>>
    /\ saveRet = <<>>

\* no analyzer and no buildProjectReport is run on its own
UnitIdle ==
    /\ unitPc = "idle"
    /\ source = <<>>
    /\ parsed = <<>>
    /\ aggIn = <<>>
    /\ aggOut = <<>>

Init == ExecuteIdle /\ UnitIdle

\* --------------------------------------------------------- Execute, entry

\* what Scan can return: FSScanner returns the files walked so far and the error
ScanLists ==
    { [i \in 1..Len(f) |-> PathOrder[f[i]]] :
        f \in { g \in SeqsUpTo(1..Len(PathOrder), MaxFiles) :
                  \A i \in 1..Len(g) : i < Len(g) => g[i] <= g[i + 1] } }

ScanOutcomes == { <<e, l>> : e \in {"ok", "err"}, l \in ScanLists }

\* uc.workers after the defaulting of lines 56-61
EffectiveWorkers(cfg, ncpu) ==
    IF cfg <= 0 THEN (IF ncpu < 1 THEN 1 ELSE ncpu) ELSE cfg

\* the scan results on which Execute gives up (lines 64-69)
ScanIsFatal(scan) == scan[1] = "err" \/ Len(scan[2]) = 0

ScanError(scan) ==
    IF scan[1] = "err" THEN <<"error", "scan source files">>
    ELSE <<"error", "no source files found">>

\* capacity of errCh (line 73)
ErrChCap_Unbuffered(n) == 0

ErrChCap(n) == n

\* Execute from its entry to the start of the collector loop: validation,
\* scan, channel creation, start of the workers, the producer and the closer
Execute_Start ==
    /\ pc = "idle"
    /\ \E root \in RootPaths, cfg \in 0..MaxWorkers, ncpu \in 1..MaxWorkers,
          ps \in ParserLists, scan \in ScanOutcomes :
        IF root = <<>>
        THEN /\ result' = <<"error", "root path is required">>
             /\ pc' = "done"
             /\ UNCHANGED << rootPath, parsers, workers, filesList, ppc, next, wpc, wpath, wfm, werr, cpc,
                            resultsClosed, errClosed, deqCnt, readCnt, parseCalls, outcomes, saw,
                            scanRet >>
        ELSE IF ScanIsFatal(scan)
        THEN /\ result' = ScanError(scan)
             /\ pc' = "done"
             /\ rootPath' = root
             /\ filesList' = IF scan[1] = "err" THEN <<>> ELSE scan[2]
             /\ scanRet' = <<scan>>
             /\ UNCHANGED << parsers, workers, ppc, next, wpc, wpath, wfm, werr, cpc, resultsClosed, errClosed, deqCnt,
                             readCnt, parseCalls, outcomes, saw >>
        ELSE LET w == EffectiveWorkers(cfg, ncpu)
             IN /\ rootPath' = root
                /\ parsers' = ps
                /\ workers' = w
                /\ filesList' = scan[2]
                /\ wpc' = [i \in 1..w |-> "recv"]
                /\ wpath' = [i \in 1..w |-> <<>>]
                /\ wfm' = [i \in 1..w |-> <<>>]
                /\ werr' = [i \in 1..w |-> <<>>]
                /\ ppc' = "run"
                /\ cpc' = "wait"
                /\ pc' = "collectResults"
                /\ scanRet' = <<scan>>
                /\ UNCHANGED << result, next, resultsClosed, errClosed, deqCnt,
                                readCnt, parseCalls, outcomes, saw >>
    /\ UNCHANGED << unitVars, ctxDone, errCh, files, warnings, gitRet, report, saveRet >>

\* ctx is cancelled by the caller, at any moment up to the join of the
\* parallel phase; from then on Execute only hands ctx to CollectFileMetrics
\* and Save, whose outcomes are drawn freely anyway
Cancel ==
    /\ pc \in {"idle", "collectResults", "collectErrs", "git"}
    /\ ~ctxDone
    /\ ctxDone' = TRUE
    /\ UNCHANGED << unitVars, pc, rootPath, parsers, workers, filesList, ppc, next, wpc, wpath,
                    wfm, werr, cpc, resultsClosed, errClosed, errCh,
                    files, warnings, gitRet, report, result, deqCnt, readCnt,
                    parseCalls, outcomes, saw, scanRet, saveRet >>

cfgVars == << rootPath, parsers, workers, filesList, scanRet >>
mainVars == << pc, files, warnings, gitRet, report, result, saveRet >>
closeVars == << cpc, resultsClosed, errClosed >>

\* ------------------------------------------------- producer (lines 109-114)

\* the range loop's step to the next element
ProducerAdvance_Skip(i) == i + 2

ProducerAdvance(i) == i + 1

\* jobs <- path, received by worker w (jobs is unbuffered: one rendezvous)
ProducerSend(w) ==
    /\ ppc = "run"
    /\ next <= Len(filesList)
    /\ w \in Workers
    /\ wpc[w] = "recv"
    /\ wpath' = [wpath EXCEPT ![w] = filesList[next]]
    /\ wpc' = [wpc EXCEPT ![w] = "check"]
    /\ next' = ProducerAdvance(next)
    /\ deqCnt' = [deqCnt EXCEPT ![filesList[next]] = @ + 1]
    /\ UNCHANGED << unitVars, ctxDone, cfgVars, mainVars, closeVars, errCh, ppc, wfm, werr, readCnt, parseCalls, outcomes, saw >>

\* the loop is over: deferred close(jobs)
ProducerClose ==
    /\ ppc = "run"
    /\ next > Len(filesList)
    /\ ppc' = "closed"
    /\ UNCHANGED << unitVars, ctxDone, cfgVars, mainVars, closeVars, errCh, next, wpc, wpath,
                    wfm, werr, deqCnt, readCnt, parseCalls, outcomes, saw >>

\* ---------------------------------------------------- worker (lines 78-106)

\* range over a closed, empty jobs channel ends: deferred wg.Done
WorkerExit(w) ==
    /\ w \in Workers
    /\ wpc[w] = "recv"
    /\ ppc = "closed"
    /\ wpc' = [wpc EXCEPT ![w] = "done"]
    /\ UNCHANGED << unitVars, ctxDone, cfgVars, mainVars, closeVars, errCh, ppc, next, wpath,
                    wfm, werr, deqCnt, readCnt, parseCalls, outcomes, saw >>

\* the select on ctx.Done() with a default case (lines 81-85)
CtxObserved_Never(done) == FALSE

CtxObserved(done) == done

WorkerCheckCtx(w) ==
    /\ w \in Workers
    /\ wpc[w] = "check"
    /\ IF CtxObserved(ctxDone)
       THEN /\ wpc' = [wpc EXCEPT ![w] = "done"]
            /\ wpath' = [wpath EXCEPT ![w] = <<>>]
            /\ saw' = IF ctxDone THEN saw \cup {w} ELSE saw
       ELSE /\ wpc' = [wpc EXCEPT ![w] = "read"]
            /\ saw' = IF ctxDone THEN saw \cup {w} ELSE saw
            /\ UNCHANGED wpath
    /\ UNCHANGED << unitVars, ctxDone, cfgVars, mainVars, closeVars, errCh, ppc, next, wfm, werr, deqCnt, readCnt, parseCalls, outcomes >>

\* fmt.Errorf("read %s: %w", path, err) and fmt.Errorf("parse %s: %w", path, err)
FileError(prefix, path, cause) == [prefix |-> prefix, path |-> path, cause |-> cause]

\* ReadFile, selectParser and ParseFile (lines 87-102): local to the worker
\* up to its next channel operation; ReadFile returns nothing (an error) or
\* the text
WorkerRead(w) ==
    /\ w \in Workers
    /\ wpc[w] = "read"
    /\ readCnt' = [readCnt EXCEPT ![wpath[w]] = @ + 1]
    /\ \E r \in { <<>> } \cup { <<s>> : s \in Sources } :
        IF r = <<>>
        THEN /\ werr' = [werr EXCEPT ![w] = << FileError("read", wpath[w], "read error") >>]
             /\ wpc' = [wpc EXCEPT ![w] = "senderr"]
             /\ outcomes' = [outcomes EXCEPT !["readerr"][wpath[w]] = @ + 1]
             /\ UNCHANGED << wpath, wfm, parseCalls >>
        ELSE LET k == selectParser(parsers, wpath[w])
             IN IF k = 0
                THEN /\ wpc' = [wpc EXCEPT ![w] = "recv"]
                     /\ wpath' = [wpath EXCEPT ![w] = <<>>]
                     /\ outcomes' = [outcomes EXCEPT !["skipped"][wpath[w]] = @ + 1]
                     /\ UNCHANGED << werr, wfm, parseCalls >>
                ELSE LET res == ParsedTree[parsers[k]][wpath[w]][r[1]]
                     IN /\ parseCalls' = parseCalls \cup { <<wpath[w], k>> }
                        /\ IF res[1] = "err"
                           THEN /\ werr' = [werr EXCEPT
                                              ![w] = << FileError("parse", wpath[w], res[2]) >>]
                                /\ wpc' = [wpc EXCEPT ![w] = "senderr"]
                                /\ outcomes' = [outcomes EXCEPT !["parseerr"][wpath[w]] = @ + 1]
                                /\ UNCHANGED << wpath, wfm >>
                           ELSE /\ wfm' = [wfm EXCEPT ![w] = << res[2] >>]
                                /\ wpc' = [wpc EXCEPT ![w] = "sendres"]
                                /\ outcomes' = [outcomes EXCEPT !["ok"][wpath[w]] = @ + 1]
                                /\ UNCHANGED << wpath, werr >>
    /\ UNCHANGED << unitVars, ctxDone, cfgVars, mainVars, closeVars, errCh, ppc, next, deqCnt, saw >>

\* what errCh holds after errCh <- e
ErrChSend_Drop(ch, e) == ch

ErrChSend(ch, e) == Append(ch, e)

\* errCh <- ... ; continue (lines 89-90, 100-101): blocks while errCh is full
WorkerSendErr(w) ==
    /\ w \in Workers
    /\ wpc[w] = "senderr"
    /\ Len(errCh) < ErrChCap(Len(filesList))
    /\ errCh' = ErrChSend(errCh, werr[w][1])
    /\ werr' = [werr EXCEPT ![w] = <<>>]
    /\ wpath' = [wpath EXCEPT ![w] = <<>>]
    /\ wpc' = [wpc EXCEPT ![w] = "recv"]
    /\ UNCHANGED << unitVars, ctxDone, cfgVars, mainVars, closeVars, ppc, next, wfm, deqCnt, readCnt, parseCalls, outcomes, saw >>

\* results <- fm, received by the collector loop of lines 122-127
\* (results is unbuffered: one rendezvous)
CollectResult(w) ==
    /\ pc = "collectResults"
    /\ w \in Workers
    /\ wpc[w] = "sendres"
    /\ files' = Append(files, wfm[w][1])
    /\ wfm' = [wfm EXCEPT ![w] = <<>>]
    /\ wpath' = [wpath EXCEPT ![w] = <<>>]
    /\ wpc' = [wpc EXCEPT ![w] = "recv"]
    /\ UNCHANGED << unitVars, ctxDone, cfgVars, closeVars, errCh, ppc, next, werr,
                    pc, warnings, gitRet, report, result, saveRet, deqCnt, readCnt,
                    parseCalls, outcomes, saw >>

\* ---------------------------------------------------- closer (lines 116-120)

\* wg.Wait() returns
WgWaitDone_Early == TRUE

WgWaitDone == \A w \in Workers : wpc[w] = "done"

CloseResults ==
    /\ cpc = "wait"
    /\ WgWaitDone
    /\ resultsClosed' = TRUE
    /\ cpc' = "closeErr"
    /\ UNCHANGED << unitVars, ctxDone, cfgVars, mainVars, errCh, errClosed, ppc, next, wpc, wpath,
                    wfm, werr, deqCnt, readCnt, parseCalls, outcomes, saw >>

CloseErrCh ==
    /\ cpc = "closeErr"
    /\ errClosed' = TRUE
    /\ cpc' = "done"
    /\ UNCHANGED << unitVars, ctxDone, cfgVars, mainVars, errCh, resultsClosed, ppc, next, wpc,
                    wpath, wfm, werr, deqCnt, readCnt, parseCalls,
                    outcomes, saw >>

\* ------------------------------------- Execute, collector (lines 122-134)

goVars ==
    << ppc, next, wpc, wpath, wfm, werr, cpc, resultsClosed, errClosed,
       deqCnt, readCnt, parseCalls, outcomes, saw >>

\* range results ends: the channel is closed (it never holds a value)
ResultsDrained ==
    /\ pc = "collectResults"
    /\ resultsClosed
    /\ pc' = "collectErrs"
    /\ UNCHANGED << unitVars, ctxDone, cfgVars, goVars, errCh, files, warnings, gitRet, report,
                    result, saveRet >>

\* one iteration of range errCh: warnings = append(warnings, e.Error())
CollectErr ==
    /\ pc = "collectErrs"
    /\ errCh # <<>>
    /\ warnings' = Append(warnings, Head(errCh))
    /\ errCh' = Tail(errCh)
    /\ UNCHANGED << unitVars, ctxDone, cfgVars, goVars, pc, files, gitRet, report, result,
                    saveRet >>

\* range errCh ends: closed and empty
ErrsDrained ==
    /\ pc = "collectErrs"
    /\ errCh = <<>>
    /\ errClosed
    /\ pc' = "git"
    /\ UNCHANGED << unitVars, ctxDone, cfgVars, goVars, errCh, files, warnings, gitRet, report,
                    result, saveRet >>

\* --------------------------------- Execute, aggregation (lines 136-162)

GitKeys ==
    { filesList[i] : i \in 1..Len(filesList) }
        \cup { Rel(rootPath, filesList[i]) : i \in 1..Len(filesList) }

\* the maps git can report: no entry, or an entry for one key
GitMaps ==
    UNION { [D -> GitValues] : D \in { K \in SUBSET GitKeys : Cardinality(K) <= 1 } }

\* what a GitClient's CollectFileMetrics can return: a map or nil, with or
\* without an error.  GitCLI itself returns (empty map, nil) when the git
\* command fails.
GitOutcomes ==
    { [err |-> <<>>, metrics |-> <<m>>] : m \in GitMaps }
        \cup { [err |-> <<>>, metrics |-> <<>>] }
        \cup { [err |-> <<"git failed">>, metrics |-> <<>>] }
        \cup { [err |-> <<"git failed">>, metrics |-> <<m>>] : m \in GitMaps }

\* fmt.Sprintf("git metrics disabled: %v", err)
GitWarning(cause) == [prefix |-> "git metrics disabled", path |-> <<>>, cause |-> cause]

\* the warnings after the call (lines 137-139)
WarningsAfterGit_Silent(warns, g) == warns

WarningsAfterGit(warns, g) ==
    IF g.err # <<>> THEN Append(warns, GitWarning(g.err[1])) ELSE warns

\* the files after the attachment loop (lines 141-154)
FilesAfterGit_Lose(root, fs, g) ==
    IF g.metrics # <<>> THEN AttachGit(root, fs, g.metrics[1]) ELSE <<>>

FilesAfterGit(root, fs, g) ==
    IF g.metrics # <<>> THEN AttachGit(root, fs, g.metrics[1]) ELSE fs

\* the call of CollectFileMetrics, the attachment loop and buildProjectReport
\* (lines 136-156): straight-line code of Execute
Aggregate ==
    /\ pc = "git"
    /\ \E g \in GitOutcomes :
        LET warns == WarningsAfterGit(warnings, g)
            attached == FilesAfterGit(rootPath, files, g)
        IN /\ gitRet' = <<g>>
           /\ warnings' = warns
           /\ files' = attached
           /\ \E r \in buildProjectReport(rootPath, attached, warns) : report' = <<r>>
    /\ pc' = "save"
    /\ UNCHANGED << unitVars, ctxDone, cfgVars, goVars, errCh, result, saveRet >>

\* what Execute returns after storage.Save (lines 158-161)
SaveResult_Swallow(ok) == <<"report">>

SaveResult(ok) == IF ok THEN <<"report">> ELSE <<"error", "save report">>

SaveReport ==
    /\ pc = "save"
    /\ \E ok \in BOOLEAN :
        /\ saveRet' = <<ok>>
        /\ result' = SaveResult(ok)
    /\ pc' = "done"
    /\ UNCHANGED << unitVars, ctxDone, cfgVars, goVars, errCh, files, warnings, gitRet, report >>

\* ------------------------------------------------------------ specification

Next ==
    \/ Execute_Start
    \/ Cancel
    \/ \E w \in 1..MaxWorkers : ProducerSend(w)
    \/ ProducerClose
    \/ \E w \in 1..MaxWorkers : WorkerExit(w)
    \/ \E w \in 1..MaxWorkers : WorkerCheckCtx(w)
    \/ \E w \in 1..MaxWorkers : WorkerRead(w)
    \/ \E w \in 1..MaxWorkers : WorkerSendErr(w)
    \/ \E w \in 1..MaxWorkers : CollectResult(w)
    \/ CloseResults
    \/ CloseErrCh
    \/ ResultsDrained
    \/ CollectErr
    \/ ErrsDrained
    \/ Aggregate
    \/ SaveReport

Spec == Init /\ [][Next]_vars

\* every step of the goroutines of the parallel phase: all of Next but the
\* caller's Cancel and the sequential end of Execute (git, aggregation, save)
Progress ==
    \/ Execute_Start
    \/ \E w \in 1..MaxWorkers : ProducerSend(w)
    \/ ProducerClose
    \/ \E w \in 1..MaxWorkers : WorkerExit(w)
    \/ \E w \in 1..MaxWorkers : WorkerCheckCtx(w)
    \/ \E w \in 1..MaxWorkers : WorkerRead(w)
    \/ \E w \in 1..MaxWorkers : WorkerSendErr(w)
    \/ \E w \in 1..MaxWorkers : CollectResult(w)
    \/ CloseResults
    \/ CloseErrCh
    \/ ResultsDrained
    \/ CollectErr
    \/ ErrsDrained

\* the Go scheduler runs some goroutine that can take a step; the caller is
\* never obliged to cancel
FairSpec == Spec /\ WF_vars(Progress)

\* ------------------------------------------- the analyzers on their own

\* a C file with a C text, a Go file with a Go text or with a text go/parser
\* rejects
ParseSources ==
    { [path |-> Root \o <<"b", ".c">>, text |-> s] : s \in CSources }
        \cup { [path |-> Root \o <<"a", ".go">>, text |-> s] : s \in GoSources }
        \cup { [path |-> Root \o <<"a", ".go">>,
                text |-> [lines |-> << << "int", "x", ";" >> >>, ast |-> SyntaxError]] }

ParseInit ==
    /\ ExecuteIdle
    /\ unitPc = "source"
    /\ source \in ParseSources
    /\ parsed = <<>>
    /\ aggIn = <<>>
    /\ aggOut = <<>>

\* the analyzer selectParser picks among Go and C is called on the text
Parse ==
    /\ unitPc = "source"
    /\ LET ps == <<"go", "c">>
       IN parsed' = << ParseFile(ps[selectParser(ps, source.path)], source.path, source.text) >>
    /\ unitPc' = "parsed"
    /\ UNCHANGED << source, aggIn, aggOut, ctxDone, cfgVars, goVars, mainVars, errCh >>

\* buildProjectReport as Execute calls it when the tree holds that file alone
\* and git reports nothing for it: over the one file, or over no file and
\* with a warning when the analyzer failed
ReportParsed ==
    /\ unitPc = "parsed"
    /\ aggIn' = IF parsed[1][1] = "ok" THEN << parsed[1][2] >> ELSE <<>>
    /\ LET warns == IF parsed[1][1] = "ok" THEN <<>>
                    ELSE << FileError("parse", source.path, parsed[1][2]) >>
       IN \E r \in buildProjectReport(Root, aggIn', warns) : aggOut' = <<r>>
    /\ unitPc' = "report"
    /\ UNCHANGED << source, parsed, ctxDone, cfgVars, goVars, mainVars, errCh >>

ParseNext == Parse \/ ReportParsed

ParseSpec == ParseInit /\ [][ParseNext]_vars

\* ---------------------------------------- buildProjectReport on its own

\* a FunctionMetrics with the given name, CCN, NLOC, parameter count and callees
AggFn(name, ccn, nloc, params, callees) ==
    NewFunctionMetrics(name, <<>>, "go", 1, nloc,
                       [TextMetricsZero EXCEPT !.ccn = ccn, !.nloc = nloc],
                       params, callees, FALSE, FALSE)

AggFile(path, totalLines, commentLines, fns, git) ==
    [NewFileMetrics(path, "go", totalLines, commentLines, fns)
        EXCEPT !.Smells = SmellsOf(fns), !.Git = git]

GitOf(added, deleted) == << [LinesAdded |-> added, LinesDeleted |-> deleted, Commits |-> 1] >>

\* files as the analyzers and the attachment loop leave them; the last has
\* what an analyzer behind the CodeParser port may leave: no line count, a
\* function without a name
AggFiles ==
    { AggFile(<<"root", "a", ".go">>, 10, 1, <<>>, <<>>),
      AggFile(<<"root", "b", ".go">>, 10, 2,
              << AggFn(<<"f">>, 2, 3, 1, << <<"g">> >>) >>, GitOf(2, 1)),
      AggFile(<<"root", "c", ".go">>, 10, 3,
              << AggFn(<<"g">>, 1, 60, 5, << <<"f">>, <<"h">> >>),
                 AggFn(<<"f">>, 12, 4, 0, <<>>) >>, GitOf(0, 0)),
      AggFile(<<"root", "d", ".go">>, 4, 0,
              << AggFn(<<"h">>, 2, 101, 2, << <<"h">> >>) >>, GitOf(1, 2)),
      AggFile(<<"root", "e", ".go">>, 0, 0,
              << AggFn(<<>>, 1, 1, 0, << <<>>, <<"k">> >>) >>, GitOf(0, 1)) }

\* the i-th file of a long list: one function, with a CCN and a churn that
\* depend on i, or a file that does not qualify as a hotspot
HotFile(i, q) ==
    AggFile(<<"hot", i, ".go">>, 1, 0,
            IF ~q /\ i % 3 = 2 THEN <<>> ELSE << AggFn(<<"f">>, 1 + (i % 3), 1, 0, <<>>) >>,
            IF ~q /\ i % 3 = 0 THEN <<>>
            ELSE IF ~q /\ i % 3 = 1 THEN GitOf(0, 0)
            ELSE GitOf(1 + (i % 5), 0))

HotFiles == [ i \in 1..MaxHotFiles |-> [ q \in BOOLEAN |-> HotFile(i, q) ] ]

\* the long lists: at most two files that do not qualify
HotLists ==
    UNION { { [ i \in 1..n |-> HotFiles[i][i \notin D] ] :
                D \in { E \in SUBSET (1..n) : Cardinality(E) <= 2 } } :
            n \in TopN..MaxHotFiles }

AggInputs == SeqsUpTo(AggFiles, MaxAggFiles) \cup HotLists

AggInit ==
    /\ ExecuteIdle
    /\ unitPc = "files"
    /\ source = <<>>
    /\ parsed = <<>>
    /\ aggIn \in AggInputs
    /\ aggOut = <<>>

BuildReport ==
    /\ unitPc = "files"
    /\ \E r \in buildProjectReport(Root, aggIn, <<>>) : aggOut' = <<r>>
    /\ unitPc' = "report"
    /\ UNCHANGED << source, parsed, aggIn, ctxDone, cfgVars, goVars, mainVars, errCh >>

AggNext == BuildReport

AggSpec == AggInit /\ [][AggNext]_vars

\* ------------------------------------------------------------------ claims

Joined ==
    /\ ppc = "closed"
    /\ next = Len(filesList) + 1
    /\ \A w \in Workers : wpc[w] = "done"
    /\ resultsClosed
    /\ errClosed
    /\ errCh = <<>>

ParallelPhaseTerminates_Witness ==
    /\ pc = "git"
    /\ ~ctxDone
    /\ Joined
    /\ workers >= 2
    /\ Len(filesList) >= 2
    /\ Len(warnings) = Len(filesList)

\* C4: with no cancellation the parallel phase always terminates: all paths
\* enqueued and jobs closed, every worker gone, results and errCh closed and
\* drained; and a worker that has an error to send always finds room in errCh
ParallelPhaseTerminates ==
    /\ [](pc = "collectResults" => <>(ctxDone \/ (pc = "git" /\ Joined)))
    /\ [](\A w \in Workers :
            (~ctxDone /\ wpc[w] = "senderr") => Len(errCh) < ErrChCap(Len(filesList)))

\* the pipeline ran, and the collector is through with both channels
Collected == workers > 0 /\ pc \in {"git", "save", "done"}

FileWarnings(ws, p) ==
    Cardinality({ i \in 1..Len(ws) : ws[i].prefix \in {"read", "parse"} /\ ws[i].path = p })

FilesOf(fs, p) == Cardinality({ i \in 1..Len(fs) : fs[i].Path = p })

Total(kind) == SumOver(outcomes[kind], Paths)

\* C1: in a run that is not cancelled every path occurrence of the scanned
\* list is dequeued exactly once and read exactly once, and at no time has a
\* path been dequeued, read or parsed more often than it occurs in the list
ExactlyOnce ==
    /\ \A p \in Paths :
        /\ deqCnt[p] <= Occurrences(filesList, p)
        /\ readCnt[p] <= deqCnt[p]
    /\ \A c \in parseCalls : Occurrences(filesList, c[1]) > 0
    /\ (Collected /\ ~ctxDone) =>
          \A p \in Paths :
            /\ deqCnt[p] = Occurrences(filesList, p)
            /\ readCnt[p] = Occurrences(filesList, p)

ExactlyOnce_Witness ==
    /\ pc = "done"
    /\ ~ctxDone
    /\ workers >= 2
    /\ \E p \in Paths : Occurrences(filesList, p) >= 2 /\ readCnt[p] = Occurrences(filesList, p)

\* C2: read and parse failures never end a worker or the run: a worker leaves
\* only when jobs is closed or it saw the cancellation, the collected files
\* are exactly the successes, every failed file has exactly one warning, the
\* report is built from them, and no error result comes from a file failure
FailuresTolerated ==
    /\ \A w \in Workers : wpc[w] = "done" => (ppc = "closed" \/ w \in saw)
    /\ Collected =>
          \A p \in Paths :
            /\ FileWarnings(warnings, p) = outcomes["readerr"][p] + outcomes["parseerr"][p]
            /\ FilesOf(files, p) = outcomes["ok"][p]
    /\ (Collected /\ pc \in {"save", "done"}) =>
          /\ report # <<>>
          /\ \A p \in Paths :
                /\ FileWarnings(report[1].Warnings, p)
                      = outcomes["readerr"][p] + outcomes["parseerr"][p]
                /\ FilesOf(report[1].Files, p) = outcomes["ok"][p]
    /\ (Collected /\ pc = "done" /\ result[1] = "error") => result[2] = "save report"

FailuresTolerated_Witness ==
    /\ pc = "done"
    /\ result = <<"report">>
    /\ Total("readerr") >= 1
    /\ Total("parseerr") >= 1
    /\ Total("ok") = 0
    /\ Len(report[1].Warnings) >= 2

ScanFailedOrEmpty == scanRet # <<>> /\ (scanRet[1][1] = "err" \/ Len(scanRet[1][2]) = 0)

GitFailed == gitRet # <<>> /\ gitRet[1].err # <<>>

SaveFailed == saveRet = <<FALSE>>

\* C3, as claimed: Execute returns an error only if the scanner returned an
\* error or zero files; any other failure ends in a returned report
OnlyScanIsFatal ==
    pc = "done" =>
        /\ result[1] = "error" => ScanFailedOrEmpty
        /\ SaveFailed => result = <<"report">>

\* C3, amended: Execute returns an error exactly when the root path is empty,
\* the scanner returned an error or zero files, or Save failed; read, parse
\* and version-control failures end in a returned report that carries one
\* warning each
FatalOnlyRootScanSave ==
    pc = "done" =>
        /\ result[1] = "error" <=> (rootPath = <<>> \/ ScanFailedOrEmpty \/ SaveFailed)
        /\ result[1] = "error" =>
              result[2] = (IF rootPath = <<>> THEN "root path is required"
                           ELSE IF scanRet[1][1] = "err" THEN "scan source files"
                           ELSE IF Len(scanRet[1][2]) = 0 THEN "no source files found"
                           ELSE "save report")
        /\ result = <<"report">> =>
              Len(report[1].Warnings)
                  = Total("readerr") + Total("parseerr") + (IF GitFailed THEN 1 ELSE 0)

FatalOnlyRootScanSave_Witness ==
    /\ pc = "done"
    /\ result = <<"report">>
    /\ Total("readerr") >= 1
    /\ Total("parseerr") >= 1
    /\ GitFailed
    /\ Len(report[1].Warnings) = 3

\* C5: version-control attachment and aggregation begin only after every
\* worker has finished and results and errCh are closed and drained: while
\* Execute is at or past the CollectFileMetrics call no worker can take a step
AggregationAfterJoin ==
    (workers > 0 /\ pc \in {"git", "save", "done"}) =>
        /\ \A w \in Workers : wpc[w] = "done" /\ wfm[w] = <<>> /\ werr[w] = <<>>
        /\ resultsClosed
        /\ errClosed
        /\ errCh = <<>>
        /\ \A w \in Workers :
              ~(ENABLED WorkerCheckCtx(w) \/ ENABLED WorkerRead(w)
                  \/ ENABLED WorkerSendErr(w) \/ ENABLED CollectResult(w))

AggregationAfterJoin_Witness ==
    /\ pc = "save"
    /\ workers >= 2
    /\ Len(files) >= 2
    /\ \E i \in 1..Len(files) : files[i].Git # <<>>

\* C6: a worker that finds the signal set at its check is finished and has
\* not read the path it held; no path is read more often than it occurs;
\* every file whose read was started is accounted for once the collector is
\* through: in files, as one warning, or skipped for want of an analyzer
CancelStopsWorkers ==
    /\ \A w \in saw : wpc[w] = "done"
    /\ SumOver(readCnt, Paths) + Cardinality(saw)
          + Cardinality({ w \in Workers : wpc[w] \in {"check", "read"} })
          = SumOver(deqCnt, Paths)
    /\ \A p \in Paths : readCnt[p] <= Occurrences(filesList, p)
    /\ Collected =>
          \A p \in Paths :
            /\ readCnt[p] = outcomes["ok"][p] + outcomes["readerr"][p]
                              + outcomes["parseerr"][p] + outcomes["skipped"][p]
            /\ FilesOf(files, p) = outcomes["ok"][p]
            /\ FileWarnings(warnings, p) = outcomes["readerr"][p] + outcomes["parseerr"][p]

\* a file is on its way to the collector after the cancellation, while the
\* other worker has already seen the signal and dropped its path
CancelStopsWorkers_Witness ==
    /\ ctxDone
    /\ saw # {}
    /\ \E w \in Workers : wpc[w] \in {"sendres", "senderr"}
    /\ SumOver(readCnt, Paths) < SumOver(deqCnt, Paths)

\* the counting part of C7, on the report Execute built
OutcomesAddUp ==
    /\ Len(report[1].Files) + Total("readerr") + Total("parseerr") + Total("skipped")
          = Len(filesList)
    /\ Len(report[1].Warnings) - (IF GitFailed THEN 1 ELSE 0)
          = Total("readerr") + Total("parseerr")
    /\ report[1].Project.TotalFiles = Len(report[1].Files)

SomeFileHasFunctions == \E i \in 1..Len(files) : Len(files[i].Functions) > 0

\* C7, as claimed: in a run that is not cancelled every path ends as one
\* FileMetrics, one warning or a silent skip, and if some file parsed to at
\* least one function Execute returns a report with files and functions
EveryPathOneOutcome ==
    (pc = "done" /\ workers > 0 /\ ~ctxDone) =>
        /\ OutcomesAddUp
        /\ SomeFileHasFunctions =>
              /\ result = <<"report">>
              /\ Len(report[1].Files) > 0
              /\ report[1].Project.TotalFunctions > 0

\* C7, amended: as claimed, but Execute returns the report only if Save
\* succeeds; the built report has files and functions in either case
EveryPathOneOutcomeSaved ==
    (pc = "done" /\ workers > 0 /\ ~ctxDone) =>
        /\ OutcomesAddUp
        /\ SomeFileHasFunctions =>
              /\ result = <<"report">> <=> ~SaveFailed
              /\ Len(report[1].Files) > 0
              /\ report[1].Project.TotalFunctions > 0

EveryPathOneOutcomeSaved_Witness ==
    /\ pc = "done"
    /\ ~ctxDone
    /\ result = <<"report">>
    /\ Len(filesList) >= 2
    /\ Total("ok") >= 1
    /\ Total("skipped") + Total("readerr") + Total("parseerr") >= 1
    /\ report[1].Project.TotalFunctions > 0

Unsupported(p) == \A k \in 1..Len(parsers) : ~SupportsFile(parsers[k], p)

Names(ws, p) == \E i \in 1..Len(ws) : ws[i].path = p

\* C8, as claimed: a file no analyzer supports contributes no FileMetrics and
\* no warning, whatever the outcome of reading it
UnsupportedIsSilent ==
    (workers > 0 /\ pc \in {"save", "done"}) =>
        \A p \in Paths :
            Unsupported(p) => (FilesOf(report[1].Files, p) = 0 /\ ~Names(report[1].Warnings, p))

\* C8, amended: a file no analyzer supports is never parsed and contributes no
\* FileMetrics; read successfully it is skipped without a warning, and a
\* failed read of it gives the same read warning as for any other file
UnsupportedIsSkippedAfterRead ==
    /\ \A c \in parseCalls : ~Unsupported(c[1])
    /\ \A p \in Paths :
          Unsupported(p) =>
            /\ outcomes["ok"][p] = 0 /\ outcomes["parseerr"][p] = 0
            /\ outcomes["skipped"][p] + outcomes["readerr"][p] = readCnt[p]
    /\ (workers > 0 /\ pc \in {"save", "done"}) =>
          \A p \in Paths :
              Unsupported(p) =>
                /\ FilesOf(report[1].Files, p) = 0
                /\ Cardinality({ i \in 1..Len(report[1].Warnings) :
                                    report[1].Warnings[i].path = p }) = outcomes["readerr"][p]
                /\ \A i \in 1..Len(report[1].Warnings) :
                      report[1].Warnings[i].path = p => report[1].Warnings[i].prefix = "read"

UnsupportedIsSkippedAfterRead_Witness ==
    /\ pc = "done"
    /\ parsers # <<>>
    /\ \E p \in Paths :
          /\ Unsupported(p)
          /\ outcomes["skipped"][p] >= 1
          /\ outcomes["readerr"][p] >= 1
          /\ Names(report[1].Warnings, p)

\* C9: every ParseFile call is made on the analyzer of lowest index in
\* uc.parsers that supports the path
FirstSupportingAnalyzer ==
    \A c \in parseCalls :
        /\ c[2] \in 1..Len(parsers)
        /\ SupportsFile(parsers[c[2]], c[1])
        /\ \A j \in 1..(c[2] - 1) : ~SupportsFile(parsers[j], c[1])

\* a path that two analyzers of the list support has been parsed
FirstSupportingAnalyzer_Witness ==
    \E c \in parseCalls :
        /\ c[2] = 2
        /\ \E j \in 3..Len(parsers) : SupportsFile(parsers[j], c[1])

AllGitZero(r) ==
    /\ \A i \in 1..Len(r.Files) :
          /\ r.Files[i].Git = <<>>
          /\ \A j \in 1..Len(r.Files[i].Functions) : r.Files[i].Functions[j].HotspotScore = 0
    /\ r.Hotspots = <<>>
    /\ r.Project.GitTotalLinesAdded = 0
    /\ r.Project.GitTotalLinesDeleted = 0
    /\ r.Project.GitTotalCommits = 0

HasGitWarning(r) ==
    \E i \in 1..Len(r.Warnings) : r.Warnings[i].prefix = "git metrics disabled"

FanInIsCallSites ==
    unitPc = "report" =>
        \A i \in 1..Len(aggOut[1].Files) :
            LET lines == source.text.lines
                fns   == aggOut[1].Files[i].Functions
                inBody(l) == \E k \in 1..Len(fns) :
                                l >= fns[k].StartLine /\ l <= fns[k].EndLine
                sites(name) ==
                    UNION { { <<l, c>> : c \in { d \in 1..(Len(lines[l]) - 1) :
                                /\ <<lines[l][d]>> = name
                                /\ lines[l][d + 1] = "("
                                /\ ~(d > 1 /\ lines[l][d - 1] \in {"int", "func"}) } } :
                            l \in { m \in 1..Len(lines) : inBody(m) } }
            IN \A j \in 1..Len(fns) :
                Cardinality({ k \in 1..Len(fns) : fns[k].Name = fns[j].Name }) = 1
                    => fns[j].FanIn = Cardinality(sites(fns[j].Name))

\* C12: the coupling pass is name-based and total: a function with a name
\* gains in FanIn the number of functions of the whole project whose Callees
\* hold that name, whatever file it is in and however many functions share
\* the name; a function without a name gains nothing
CouplingIsNameBased ==
    unitPc = "report" =>
        LET out == aggOut[1].Files
            callers(name) ==
                UNION { { <<a, b>> : b \in { c \in 1..Len(aggIn[a].Functions) :
                            Contains(aggIn[a].Functions[c].Callees, name) } } :
                        a \in 1..Len(aggIn) }
        IN \A i \in 1..Len(aggIn) : \A j \in 1..Len(aggIn[i].Functions) :
            LET before == aggIn[i].Functions[j]
                after  == out[i].Functions[j]
            IN IF before.Name = <<>>
               THEN after.FanIn = before.FanIn
               ELSE after.FanIn - before.FanIn = Cardinality(callers(before.Name))

\* a name borne by functions of two files and called from a third function,
\* next to a function without a name whose Callees match nothing
CouplingIsNameBased_Witness ==
    /\ unitPc = "report"
    /\ \E i, k \in 1..Len(aggIn) :
        /\ i # k
        /\ \E j \in 1..Len(aggIn[i].Functions), l \in 1..Len(aggIn[k].Functions) :
            /\ aggIn[i].Functions[j].Name = aggIn[k].Functions[l].Name
            /\ aggOut[1].Files[i].Functions[j].FanIn >= 1
            /\ aggOut[1].Files[k].Functions[l].FanIn >= 1
    /\ \E i \in 1..Len(aggIn) : \E j \in 1..Len(aggIn[i].Functions) :
        /\ aggIn[i].Functions[j].Name = <<>>
        /\ aggIn[i].Functions[j].Callees # <<>>

\* C13: the hotspot list has min(10, q) entries, q the number of files with
\* git metrics, a churn above 0 and a total CCN above 0; its scores never
\* increase, and no qualifying file left out scores more than the last entry
HotspotsAreTopTen ==
    unitPc = "report" =>
        LET hs == aggOut[1].Hotspots
            fs == aggOut[1].Files
            Q  == { i \in 1..Len(fs) : /\ fs[i].Git # <<>>
                                       /\ Churn(fs[i]) > 0
                                       /\ fs[i].Summary.CCNTotal > 0 }
        IN /\ Len(hs) = Min(10, Cardinality(Q))
           /\ \A k \in 1..(Len(hs) - 1) : hs[k].Score >= hs[k + 1].Score
           /\ \A i \in Q :
                (\A k \in 1..Len(hs) : hs[k].FilePath # fs[i].Path)
                    => HotspotScore(fs[i].Summary.CCNTotal, Churn(fs[i])) <= hs[Len(hs)].Score

\* more than ten files qualify, and one that is left out scores less than the
\* last entry of the list
HotspotsAreTopTen_Witness ==
    /\ unitPc = "report"
    /\ Len(aggOut[1].Hotspots) = 10
    /\ \E i \in 1..Len(aggIn) :
        /\ Qualifies(aggIn[i])
        /\ \A k \in 1..10 : aggOut[1].Hotspots[k].FilePath # aggIn[i].Path
        /\ HotspotScore(aggIn[i].Summary.CCNTotal, Churn(aggIn[i]))
              < aggOut[1].Hotspots[10].Score

\* C14: the ranking is stable on ties: two listed files of equal score stand
\* in the hotspot list in the order they stand in the collected file list
HotspotTiesKeepInputOrder ==
    unitPc = "report" =>
        LET hs == aggOut[1].Hotspots
        IN \A k, l \in 1..Len(hs) :
            (k < l /\ hs[k].Score = hs[l].Score)
                => \E i, j \in 1..Len(aggIn) :
                    /\ i <= j
                    /\ aggIn[i].Path = hs[k].FilePath
                    /\ aggIn[j].Path = hs[l].FilePath

\* C15: the score of a listed file and the HotspotScore of a function never
\* decrease when the churn grows under one CCN or the CCN grows under one
\* churn, and a function of a file with churn 0 has a HotspotScore of 0
ScoreIsMonotone ==
    unitPc = "report" =>
        LET hs == aggOut[1].Hotspots
            fs == aggOut[1].Files
            scored == { [CCN |-> hs[k].CCN, Churn |-> hs[k].Churn, Score |-> hs[k].Score] :
                          k \in 1..Len(hs) }
                      \cup UNION { { [CCN |-> fs[i].Functions[j].CCN, Churn |-> Churn(fs[i]),
                                      Score |-> fs[i].Functions[j].HotspotScore] :
                                        j \in 1..Len(fs[i].Functions) } :
                                   i \in { a \in 1..Len(fs) : fs[a].Git # <<>> } }
        IN \A x, y \in scored :
            /\ (x.CCN = y.CCN /\ x.Churn <= y.Churn) => x.Score <= y.Score
            /\ (x.Churn = y.Churn /\ x.CCN <= y.CCN) => x.Score <= y.Score
            /\ x.Churn = 0 => x.Score = 0

\* two scores under one CCN that grow with the churn, two under one churn that
\* grow with the CCN, and a function of a file with git metrics and churn 0
ScoreIsMonotone_Witness ==
    /\ unitPc = "report"
    /\ \E k, l \in 1..Len(aggOut[1].Hotspots) :
        LET x == aggOut[1].Hotspots[k]
            y == aggOut[1].Hotspots[l]
        IN x.CCN = y.CCN /\ x.Churn < y.Churn /\ x.Score < y.Score
    /\ \E k, l \in 1..Len(aggOut[1].Hotspots) :
        LET x == aggOut[1].Hotspots[k]
            y == aggOut[1].Hotspots[l]
        IN x.Churn = y.Churn /\ x.CCN < y.CCN /\ x.Score < y.Score
    /\ \E i \in 1..Len(aggIn) :
        /\ aggOut[1].Files[i].Git # <<>>
        /\ Churn(aggOut[1].Files[i]) = 0
        /\ aggOut[1].Files[i].Functions # <<>>

\* C16: a file without git metrics or with churn 0 is not in the hotspot list
\* and its functions keep HotspotScore 0; every listed hotspot has a churn of
\* at least 1 and a CCN of at least 1
NoChurnNoHotspot ==
    unitPc = "report" =>
        LET hs == aggOut[1].Hotspots
            fs == aggOut[1].Files
        IN /\ \A i \in 1..Len(fs) :
                (fs[i].Git = <<>> \/ Churn(fs[i]) = 0) =>
                    /\ \A k \in 1..Len(hs) : hs[k].FilePath # fs[i].Path
                    /\ \A j \in 1..Len(fs[i].Functions) :
                        fs[i].Functions[j].HotspotScore = 0
           /\ \A k \in 1..Len(hs) : hs[k].Churn >= 1 /\ hs[k].CCN >= 1

\* a file with functions and no git metrics, one with functions, git metrics
\* and churn 0, and a listed hotspot, in one report
NoChurnNoHotspot_Witness ==
    /\ unitPc = "report"
    /\ aggOut[1].Hotspots # <<>>
    /\ \E i \in 1..Len(aggIn) :
        /\ aggIn[i].Git # <<>>
        /\ Churn(aggIn[i]) = 0
        /\ aggIn[i].Summary.CCNTotal > 0
    /\ \E i \in 1..Len(aggIn) : aggIn[i].Git = <<>>

\* C17: the FileMetrics an analyzer returns has Summary.FunctionsCount equal
\* to the length of Functions, whatever the text
FunctionsCountIsLen ==
    (unitPc = "parsed" /\ parsed[1][1] = "ok") =>
        parsed[1][2].Summary.FunctionsCount = Len(parsed[1][2].Functions)

\* a Go file whose Functions hold the entry of a function literal
FunctionsCountIsLen_Witness ==
    /\ unitPc = "parsed"
    /\ parsed[1][1] = "ok"
    /\ \E j \in 1..Len(parsed[1][2].Functions) : Len(parsed[1][2].Functions[j].Name) > 1

\* C18: every FunctionMetrics an analyzer produces has a CCN of at least 1
CCNAtLeastOne ==
    (unitPc = "parsed" /\ parsed[1][1] = "ok") =>
        \A j \in 1..Len(parsed[1][2].Functions) : parsed[1][2].Functions[j].CCN >= 1

\* a function all of whose lines are excluded or comments (no line of code
\* counted), next to the entry of a function literal
CCNAtLeastOne_Witness ==
    /\ unitPc = "parsed"
    /\ parsed[1][1] = "ok"
    /\ \E j, k \in 1..Len(parsed[1][2].Functions) :
        /\ parsed[1][2].Functions[j].NLOC = 0
        /\ Len(parsed[1][2].Functions[j].Name) = 1
        /\ Len(parsed[1][2].Functions[k].Name) > 1

\* C19: the ProjectMetrics of buildProjectReport do not depend on the order
\* of the file list: the list with any two files exchanged (every
\* permutation is made of such exchanges) gives the same ProjectMetrics,
\* field by field
ProjectMetricsOrderIndependent ==
    unitPc = "report" =>
        \A i, j \in 1..Len(aggIn) :
            ProjectOf([aggIn EXCEPT ![i] = aggIn[j], ![j] = aggIn[i]]) = aggOut[1].Project

\* C20: with no function in the collected files, or no file, the ratios of
\* buildProjectReport (AvgCCNPerFunction, FunctionsCCNGt10Pct,
\* FunctionsCCNGt20Pct, AvgParamsPerFunction, MedianFunctionSize,
\* P95FunctionSize) are 0, and an analyzer gives a file without functions a
\* CCNAvgPerFunction of 0
NoFunctionsZeroRatios ==
    /\ (unitPc = "parsed" /\ parsed[1][1] = "ok" /\ parsed[1][2].Functions = <<>>)
            => parsed[1][2].Summary.CCNAvgPerFunction = F64Zero
    /\ (unitPc = "report" /\ \A i \in 1..Len(aggIn) : aggIn[i].Functions = <<>>) =>
            LET proj == aggOut[1].Project
            IN /\ proj.AvgCCNPerFunction = F64Zero
               /\ proj.FunctionsCCNGt10Pct = F64Zero
               /\ proj.FunctionsCCNGt20Pct = F64Zero
               /\ proj.AvgParamsPerFunction = F64Zero
               /\ proj.MedianFunctionSize = F64Zero
               /\ proj.P95FunctionSize = F64Zero

\* the report over a file in which the analyzer found no function
NoFunctionsZeroRatios_Witness ==
    /\ unitPc = "report"
    /\ Len(aggIn) = 1
    /\ aggIn[1].Functions = <<>>
    /\ aggOut[1].Project.TotalFunctions = 0

\* C21 as stated: with the n >= 1 function sizes in ascending order s,
\* P95FunctionSize is s[floor(0.95 (n - 1))], the index within 0..n-1,
\* MedianFunctionSize is the middle size or the mean of the two middle sizes,
\* and so min(s) <= median <= P95 <= max(s).  Twice the sizes are compared,
\* which are integers.
MedianBelowP95 ==
    (unitPc = "report" /\ aggOut[1].Project.TotalFunctions >= 1) =>
        LET fns == Flatten([ i \in 1..Len(aggIn) |-> aggIn[i].Functions ])
            n   == Len(fns)
            s   == SortInts([ k \in 1..n |-> fns[k].NLOC ])
            idx == (95 * (n - 1)) \div 100
            p95 == 2 * F64Trunc(aggOut[1].Project.P95FunctionSize)
            med == F64Trunc(F64MulInt(aggOut[1].Project.MedianFunctionSize, 2))
        IN /\ idx \in 0..(n - 1)
           /\ aggOut[1].Project.P95FunctionSize = F64OfInt(s[idx + 1])
           /\ med = IF n % 2 = 1 THEN 2 * s[(n \div 2) + 1]
                                 ELSE s[n \div 2] + s[(n \div 2) + 1]
           /\ 2 * s[1] <= med
           /\ med <= p95
           /\ p95 <= 2 * s[n]

\* C21: with the n >= 1 function sizes in ascending order s, P95FunctionSize
\* is s[floor(0.95 (n - 1))], the index within 0..n-1, MedianFunctionSize is
\* the middle size or the mean of the two middle sizes; both lie between
\* min(s) and max(s), and the median is at most P95 unless n = 2
MedianAndP95 ==
    (unitPc = "report" /\ aggOut[1].Project.TotalFunctions >= 1) =>
        LET fns == Flatten([ i \in 1..Len(aggIn) |-> aggIn[i].Functions ])
            n   == Len(fns)
            s   == SortInts([ k \in 1..n |-> fns[k].NLOC ])
            idx == (95 * (n - 1)) \div 100
            p95 == 2 * F64Trunc(aggOut[1].Project.P95FunctionSize)
            med == F64Trunc(F64MulInt(aggOut[1].Project.MedianFunctionSize, 2))
        IN /\ idx \in 0..(n - 1)
           /\ aggOut[1].Project.P95FunctionSize = F64OfInt(s[idx + 1])
           /\ med = IF n % 2 = 1 THEN 2 * s[(n \div 2) + 1]
                                 ELSE s[n \div 2] + s[(n \div 2) + 1]
           /\ 2 * s[1] <= med /\ med <= 2 * s[n]
           /\ 2 * s[1] <= p95 /\ p95 <= 2 * s[n]
           /\ n # 2 => med <= p95

\* four functions of different sizes: the median is the mean of the two
\* middle ones, not a whole number, and lies below P95, which is not the
\* largest size
MedianAndP95_Witness ==
    /\ unitPc = "report"
    /\ aggOut[1].Project.TotalFunctions = 4
    /\ LET p == aggOut[1].Project
       IN /\ F64OfInt(F64Trunc(p.MedianFunctionSize)) # p.MedianFunctionSize
          /\ F64Trunc(p.MedianFunctionSize) < F64Trunc(p.P95FunctionSize)
          /\ \E i \in 1..Len(aggIn) : \E j \in 1..Len(aggIn[i].Functions) :
                aggIn[i].Functions[j].NLOC > F64Trunc(p.P95FunctionSize)

\* C22: the C text of the single function add, on one line or on several,
\* with or without a newline at its end, parses to exactly one function,
\* named add, with CCN 3 and an NLOC that is the number of its non-blank lines
AddParsesToOneFunction ==
    (unitPc = "parsed" /\ source.text.lines \in CAddTexts) =>
        /\ parsed[1][1] = "ok"
        /\ Len(parsed[1][2].Functions) = 1
        /\ parsed[1][2].Functions[1].Name = <<"add">>
        /\ parsed[1][2].Functions[1].CCN = 3
        /\ parsed[1][2].Functions[1].NLOC =
              Cardinality({ l \in 1..Len(source.text.lines) : source.text.lines[l] # <<>> })

\* C23: the aggregation changes nothing but FanIn and HotspotScore: the report
\* holds the collected files in their order, each with its path, language,
\* comment data, summary, smells and git metrics as collected, and with its
\* functions in their order, each equal to the collected one in every field
\* other than FanIn and HotspotScore
AggregationFrame ==
    unitPc = "report" =>
        LET out == aggOut[1].Files
        IN /\ Len(out) = Len(aggIn)
           /\ \A i \in 1..Len(aggIn) :
                /\ [out[i] EXCEPT !.Functions = aggIn[i].Functions] = aggIn[i]
                /\ Len(out[i].Functions) = Len(aggIn[i].Functions)
                /\ \A j \in 1..Len(aggIn[i].Functions) :
                    [out[i].Functions[j] EXCEPT
                        !.FanIn = aggIn[i].Functions[j].FanIn,
                        !.HotspotScore = aggIn[i].Functions[j].HotspotScore]
                      = aggIn[i].Functions[j]

\* a report of three files in which the passes raised a FanIn and set a
\* HotspotScore, over a file with a smell and a file without git metrics
AggregationFrame_Witness ==
    /\ unitPc = "report"
    /\ Len(aggIn) = 3
    /\ \E i \in 1..3 : \E j \in 1..Len(aggIn[i].Functions) :
        aggOut[1].Files[i].Functions[j].FanIn > aggIn[i].Functions[j].FanIn
    /\ \E i \in 1..3 : \E j \in 1..Len(aggIn[i].Functions) :
        aggOut[1].Files[i].Functions[j].HotspotScore # aggIn[i].Functions[j].HotspotScore
    /\ \E i \in 1..3 : aggIn[i].Smells # <<>>
    /\ \E i \in 1..3 : aggIn[i].Git = <<>>

\* C24: the two engines compute CCN by one rule: over the lines of every
\* reported function, the engine of the C analyzer and the engine of the Go
\* analyzer with no excluded range give the same CCN, and a function analysed
\* with no excluded range is reported with that CCN
EnginesAgreeOnCCN ==
    (unitPc = "parsed" /\ parsed[1][1] = "ok") =>
        \A j \in 1..Len(parsed[1][2].Functions) :
            LET fn == parsed[1][2].Functions[j]
                heuristic  == computeTextMetricsForRange(source.text.lines,
                                                         fn.StartLine, fn.EndLine).ccn
                structured == computeTextMetricsForRangeWithExcludes(source.text.lines,
                                                         fn.StartLine, fn.EndLine, <<>>).ccn
            IN /\ heuristic = structured
               /\ (\A k \in 1..Len(parsed[1][2].Functions) :
                        (k # j /\ Len(parsed[1][2].Functions[k].Name) > 1) =>
                            \/ parsed[1][2].Functions[k].StartLine > fn.EndLine
                            \/ parsed[1][2].Functions[k].EndLine < fn.StartLine)
                    => fn.CCN = heuristic

\* C25: every warning of the report names the path at fault and the cause: a
\* read or parse warning holds the path of a file whose read or parse failed
\* and the error text of the collaborator, the git warning holds the root path
\* that could not be analysed and the error text of the git collaborator
WarningsNamePathAndCause ==
    report # <<>> =>
        \A i \in 1..Len(report[1].Warnings) :
            LET w == report[1].Warnings[i]
            IN /\ w.prefix \in {"read", "parse", "git metrics disabled"}
               /\ w.prefix = "read" =>
                    /\ outcomes["readerr"][w.path] >= 1
                    /\ w.cause = "read error"
               /\ w.prefix = "parse" =>
                    /\ outcomes["parseerr"][w.path] >= 1
                    /\ w.cause = "syntax error"
               /\ w.prefix = "git metrics disabled" =>
                    /\ w.path = rootPath
                    /\ gitRet[1].err = << w.cause >>

\* a line that is a whole function: header, opening and closing brace
OneLineFunction(line) ==
    /\ Contains(line, "{")
    /\ funcHeaderRe(SubSeq(line, 1, Index(line, "{") - 1)) # <<>>
    /\ Count(line, "{") = Count(line, "}")

\* C26: a function of the C analyzer ends at the first line, from the line of
\* its opening brace on, at which the brace balance since its header start is
\* zero or below; so a function that opens and closes on its header line ends
\* there, and in a text of one-line functions every line is reported as a
\* function with StartLine = EndLine, none reaching the header of the next
EndsAtFirstBalancedLine ==
    (unitPc = "parsed" /\ source.path = Root \o <<"b", ".c">>) =>
        LET lines == source.text.lines
            fns   == parsed[1][2].Functions
        IN /\ \A j \in 1..Len(fns) :
                LET open == CHOOSE l \in fns[j].StartLine..Len(lines) :
                                /\ Contains(lines[l], "{")
                                /\ \A m \in fns[j].StartLine..(l - 1) : ~Contains(lines[m], "{")
                IN /\ BraceBalance(lines, fns[j].StartLine, fns[j].EndLine) <= 0
                   /\ \A l \in open..(fns[j].EndLine - 1) :
                        BraceBalance(lines, fns[j].StartLine, l) > 0
           /\ \A j \in 1..(Len(fns) - 1) : fns[j].EndLine < fns[j + 1].StartLine
           /\ (\A l \in 1..Len(lines) : OneLineFunction(lines[l])) =>
                /\ Len(fns) = Len(lines)
                /\ \A l \in 1..Len(lines) : fns[l].StartLine = l /\ fns[l].EndLine = l

\* C27: in a Go file no line is counted for two entries: the NLOC and the CCN
\* of every entry, of a top-level function or of a function literal, are those
\* of its lines without the lines of the function literals nested in it
NoLineCountedTwice ==
    (unitPc = "parsed" /\ parsed[1][1] = "ok" /\ source.path = Root \o <<"a", ".go">>) =>
        LET fns == parsed[1][2].Functions
            nested(j) ==
                SelectSeq([ k \in 1..Len(fns) |->
                              [Start |-> fns[k].StartLine, End |-> fns[k].EndLine, k |-> k] ],
                          LAMBDA r :
                              /\ r.k # j
                              /\ Len(fns[r.k].Name) > 1
                              /\ fns[j].StartLine <= r.Start
                              /\ r.End <= fns[j].EndLine
                              /\ \/ Len(fns[j].Name) = 1
                                 \/ r.End - r.Start < fns[j].EndLine - fns[j].StartLine)
        IN \A j \in 1..Len(fns) :
            LET own == computeTextMetricsForRangeWithExcludes(source.text.lines,
                            fns[j].StartLine, fns[j].EndLine, nested(j))
            IN fns[j].NLOC = own.nloc /\ fns[j].CCN = own.ccn

\* the line with the text inside its quoted literals taken out: the quotes
\* stay, q is the quote of the literal the scan is in, "" outside
RECURSIVE EmptyLiteralsFrom(_, _, _)
EmptyLiteralsFrom(s, k, q) ==
    IF k > Len(s) THEN <<>>
    ELSE IF q = "" THEN <<s[k]>> \o EmptyLiteralsFrom(s, k + 1,
                                        IF s[k] \in {"'", "\""} THEN s[k] ELSE "")
    ELSE IF s[k] = "\\" THEN EmptyLiteralsFrom(s, k + 2, q)
    ELSE IF s[k] = q THEN <<s[k]>> \o EmptyLiteralsFrom(s, k + 1, "")
    ELSE EmptyLiteralsFrom(s, k + 1, q)

EmptyLiterals(lines) == [ l \in 1..Len(lines) |-> EmptyLiteralsFrom(lines[l], 1, "") ]

NoQuotes(s) == SelectSeq(s, LAMBDA t : t \notin {"'", "\""})

\* C28: the text inside quoted literals has no influence: the file with its
\* literals emptied parses to as many functions, each with the same CCN,
\* cognitive complexity and MaxNesting, and stripStringLiterals gives, quotes
\* apart, what lies outside the literals
LiteralsDoNotCount ==
    (unitPc = "parsed" /\ parsed[1][1] = "ok") =>
        LET ps    == <<"go", "c">>
            plain == [source.text EXCEPT !.lines = EmptyLiterals(@)]
            other == ParseFile(ps[selectParser(ps, source.path)], source.path, plain)[2].Functions
            fns   == parsed[1][2].Functions
        IN /\ Len(other) = Len(fns)
           /\ \A j \in 1..Len(fns) :
                /\ fns[j].CCN = other[j].CCN
                /\ fns[j].CognitiveComplexity = other[j].CognitiveComplexity
                /\ fns[j].MaxNesting = other[j].MaxNesting
           /\ \A l \in 1..Len(source.text.lines) :
                NoQuotes(stripStringLiterals(source.text.lines[l]))
                    = NoQuotes(plain.lines[l])

\* C29: the comment lines of a file are counted by a scan with two states,
\* outside and inside a block comment: a non-blank line is counted exactly
\* when the scan is inside, or the line begins with // or holds /*; a block
\* comment left open on its line keeps every later non-blank line counted up
\* to and with the first that holds */; a blank line is not counted and
\* leaves the state; the count is at most the number of non-blank lines and
\* the comment density of the file lies in [0, 1]
CommentScanIsTwoState ==
    (unitPc = "parsed" /\ parsed[1][1] = "ok") =>
        LET lines == source.text.lines
            n     == Len(lines)
            opens(l) == /\ ~HasPrefix(lines[l], "//")
                        /\ Contains(lines[l], "/*")
                        /\ ~Contains(SubSeq(lines[l], Index(lines[l], "/*") + 1,
                                            Len(lines[l])), "*/")
            inside[l \in 0..n] ==
                IF l = 0 THEN FALSE
                ELSE IF lines[l] = <<>> THEN inside[l - 1]
                ELSE IF inside[l - 1] THEN ~Contains(lines[l], "*/")
                ELSE opens(l)
            counted(l) == /\ lines[l] # <<>>
                          /\ \/ inside[l - 1]
                             \/ HasPrefix(lines[l], "//")
                             \/ Contains(lines[l], "/*")
            count   == parsed[1][2].Comments.CommentLines
            density == parsed[1][2].Comments.CommentDensity
        IN /\ count = Cardinality({ l \in 1..n : counted(l) })
           /\ \A l \in 1..n :
                (lines[l] # <<>> /\ ~inside[l - 1] /\ opens(l)) =>
                    \A m \in (l + 1)..n :
                        (/\ lines[m] # <<>>
                         /\ \A k \in (l + 1)..(m - 1) : ~Contains(lines[k], "*/"))
                            => counted(m)
           /\ count <= Cardinality({ l \in 1..n : lines[l] # <<>> })
           /\ \/ density = F64Zero
              \/ density = F64OfInt(1)
              \/ F64Trunc(density) = 0

\* a block comment opened after code on the first line and closed on the
\* third, over a blank line that is not counted, then a line comment and a
\* line of code: 3 of 5 lines counted
CommentScanIsTwoState_Witness ==
    /\ unitPc = "parsed"
    /\ parsed[1][1] = "ok"
    /\ Len(source.text.lines) = 5
    /\ Index(source.text.lines[1], "/*") > 1
    /\ source.text.lines[2] = <<>>
    /\ Contains(source.text.lines[3], "*/")
    /\ HasPrefix(source.text.lines[4], "//")
    /\ parsed[1][2].Comments.CommentLines = 3
    /\ F64Trunc(F64MulInt(parsed[1][2].Comments.CommentDensity, 5)) = 3

\* C30: every task Execute starts terminates, cancelled or not: once the
\* producer runs, eventually it has enqueued every path and closed jobs, every
\* worker has returned and the closer is through
TasksTerminate ==
    (ppc = "run") ~> (/\ ppc = "closed"
                      /\ next > Len(filesList)
                      /\ cpc = "done"
                      /\ \A w \in Workers : wpc[w] = "done")

====
